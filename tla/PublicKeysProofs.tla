-------------------------- MODULE PublicKeysProofs --------------------------
(***************************************************************************)
(* Theorems about PublicKeys, for any number of requests and keys.         *)
(***************************************************************************)
EXTENDS PublicKeys, TLAPS

\* What a handler knows of its request at each pc.
ContextInv ==
    \A h \in Handlers :
        /\ pc[h] = "idle" => op[h] = "create" /\ own[h] = {}
        /\ pc[h] = "clear" => op[h] # "remove" /\ flag[h] = "default"
        /\ pc[h] = "register" => op[h] = "create"
        /\ pc[h] \in {"select", "unregister"} => op[h] = "remove"
        /\ pc[h] = "promote" => \E k \in KeyIds : target[h] = {k}
        /\ op[h] = "create" /\ pc[h] # "idle" =>
              flag[h] \in {"plain", "default"} /\ \E k \in KeyIds : own[h] = {k}
        /\ op[h] = "patch" => flag[h] # "none" /\ \E k \in KeyIds : own[h] = {k}
        /\ op[h] = "patch" /\ pc[h] # "write" /\ pc[h] # "clear" => flag[h] # "keep"
        /\ op[h] = "remove" => flag[h] = "none"

\* The id of a create belongs to that request only, until its row is committed.
FreshInv ==
    /\ Rows \subseteq used /\ vault \subseteq used
    /\ \A h \in Handlers :
         own[h] \subseteq used /\ found[h] \subseteq used /\ target[h] \subseteq used
    /\ \A h \in Handlers : op[h] = "create" => own[h] \cap Rows = {}
    /\ \A g, h \in Handlers :
         op[h] = "create" => /\ op[g] = "remove" => own[h] \cap found[g] = {}
                             /\ own[h] \cap target[g] = {}
                             /\ g # h => own[h] \cap own[g] = {}

\* A row is locked by one transaction, a row that a PATCH locks stays, and a
\* DELETE takes all it has found and that is still there.
LockInv ==
    /\ \A g, h \in Handlers : g # h => Locked(g) \cap Locked(h) = {}
    /\ \A h \in Handlers : op[h] = "patch" => Locked(h) \subseteq Rows
    /\ \A h \in Handlers : op[h] = "remove" /\ pc[h] # "select" =>
         found[h] \cap Rows \subseteq own[h]

IInv == TypeOK /\ ContextInv /\ FreshInv /\ LockInv

LEMMA InitInv == Init => IInv
BY DEF Init, IInv, TypeOK, ContextInv, FreshInv, LockInv, Locked, Rows, Flags,
       PCs, Ops

-----------------------------------------------------------------------------
\* A request begins.
LEMMA StartInv ==
    ASSUME IInv, NEW h \in Handlers, NEW o \in Ops, NEW rows \in SUBSET KeyIds,
           NEW f \in Flags \cup {"keep"}, NEW others \in SUBSET Rows,
           NEW l \in {"clear", "select", "write"}, Start(h, o, rows, f, others, l),
           UNCHANGED <<db, vault>>, used' = used \cup rows,
           l = "select" => o = "remove",
           o = "remove" /\ l = "write" => others \subseteq rows,
           l = "clear" => o # "remove" /\ f = "default",
           o = "create" => /\ f \in {"plain", "default"}
                           /\ \E k \in KeyIds : rows = {k}
                           /\ rows \cap used = {},
           o = "patch" => f # "none" /\ \E k \in KeyIds : rows = {k},
           o # "create" => rows \subseteq Rows,
           o = "remove" => f = "none"
    PROVE  IInv'
<1> USE DEF IInv
<1>1. /\ pc[h] = "idle"
      /\ op' = [op EXCEPT ![h] = o]
      /\ own' = [own EXCEPT ![h] = rows]
      /\ flag' = [flag EXCEPT ![h] = f]
      /\ found' = [found EXCEPT ![h] = others]
      /\ pc' = [pc EXCEPT ![h] = l]
      /\ UNCHANGED <<target, missed>>
      /\ disturbed' \subseteq disturbed \cup {"met"}
  BY DEF Start, Goto
<1>2. Rows' = Rows /\ Rows \subseteq KeyIds
  BY DEF Rows
<1>3. TypeOK'
  BY <1>1, <1>2 DEF TypeOK, PCs
<1>4. ContextInv'
  BY <1>1 DEF ContextInv, TypeOK
<1>5. FreshInv'
  BY <1>1, <1>2 DEF FreshInv, TypeOK
<1>6. LockInv'
  BY <1>1, <1>2 DEF LockInv, Locked, TypeOK
<1> QED
  BY <1>3, <1>4, <1>5, <1>6

LEMMA CreateKeyInv ==
    ASSUME IInv, NEW h \in Handlers, CreateKey(h) PROVE IInv'
<1>1. PICK k \in KeyIds \ used, f \in CreateFlags :
        /\ used' = used \cup {k}
        /\ \/ f = "default" /\ Start(h, "create", {k}, f, Defaults, "clear")
           \/ f = "plain" /\ Rows # {} /\ Start(h, "create", {k}, f, {}, "write")
  BY DEF CreateKey
<1>2. Defaults \subseteq Rows /\ UNCHANGED <<db, vault>>
  BY DEF Defaults, Rows, CreateKey
<1>3. CASE f = "default" /\ Start(h, "create", {k}, f, Defaults, "clear")
  BY <1>1, <1>2, <1>3, StartInv DEF Ops, Flags
<1>4. CASE f = "plain" /\ Start(h, "create", {k}, f, {}, "write")
  BY <1>1, <1>2, <1>4, StartInv DEF Ops, Flags
<1> QED
  BY <1>1, <1>3, <1>4

LEMMA PatchKeyInv ==
    ASSUME IInv, NEW h \in Handlers, PatchKey(h) PROVE IInv'
<1>1. PICK k \in Rows, f \in PatchFlags :
         \/ f = "default" /\ Start(h, "patch", {k}, f, Defaults \ {k}, "clear")
         \/ f = "plain" /\ Rows # {k} /\ Start(h, "patch", {k}, f, {}, "write")
         \/ f = "keep" /\ Start(h, "patch", {k}, f, {}, "write")
  BY DEF PatchKey
<1>2. /\ Defaults \ {k} \subseteq Rows /\ UNCHANGED <<db, vault, used>>
      /\ k \in KeyIds /\ used = used \cup {k}
  BY DEF Defaults, Rows, PatchKey, IInv, FreshInv
<1>3. CASE f = "default" /\ Start(h, "patch", {k}, f, Defaults \ {k}, "clear")
  BY <1>1, <1>2, <1>3, StartInv DEF Ops, Flags
<1>4. CASE f \in {"plain", "keep"} /\ Start(h, "patch", {k}, f, {}, "write")
  BY <1>1, <1>2, <1>4, StartInv DEF Ops, Flags
<1> QED
  BY <1>1, <1>3, <1>4

LEMMA RemoveKeysInv ==
    ASSUME IInv, NEW h \in Handlers, RemoveKeys(h) PROVE IInv'
<1>1. Rows \subseteq KeyIds /\ Rows \subseteq used /\ UNCHANGED <<db, vault, used>>
  BY DEF Rows, RemoveKeys, IInv, FreshInv
<1>2. ASSUME NEW k \in Rows, Start(h, "remove", {k}, "none", {k}, "write") PROVE IInv'
  BY <1>1, <1>2, StartInv DEF Ops, Flags
<1>3. CASE Start(h, "remove", {}, "none", Rows, "select")
  BY <1>1, <1>3, StartInv DEF Ops, Flags
<1> QED
  BY <1>2, <1>3 DEF RemoveKeys

\* A request that ends without a change to its rows.
LEMMA AnswerInv ==
    ASSUME IInv, NEW h \in Handlers, Answer(h), UNCHANGED <<db, used, missed>>,
           vault' \subseteq vault, disturbed' \subseteq disturbed \cup {"failed"}
    PROVE  IInv'
<1> USE DEF IInv, Answer, Goto
<1>1. Rows' = Rows
  BY DEF Rows
<1>2. TypeOK'
  BY DEF TypeOK, PCs, Ops, Flags
<1>3. ContextInv'
  BY DEF ContextInv, TypeOK
<1>4. FreshInv'
  BY <1>1 DEF FreshInv, TypeOK
<1>5. LockInv'
  BY <1>1 DEF LockInv, Locked, TypeOK
<1> QED
  BY <1>2, <1>3, <1>4, <1>5

\* The nested PATCH changes the flag of a row and nothing else.
LEMMA NestedInv ==
    ASSUME IInv, NEW h \in Handlers, NEW l \in PCs, Goto(h, l),
           db' \in [KeyIds -> Flags], Rows' = Rows,
           UNCHANGED <<vault, used, op, own, flag, found, history>>,
           target' = [target EXCEPT ![h] = {}],
           pc[h] = "promote", l \in {"register", "unregister", "commit"},
           l = "register" => op[h] = "create",
           l = "unregister" => op[h] = "remove"
    PROVE  IInv'
<1> USE DEF IInv, Goto, history
<1>1. TypeOK'
  BY DEF TypeOK
<1>2. ContextInv'
  BY DEF ContextInv, TypeOK
<1>3. FreshInv'
  BY DEF FreshInv, TypeOK
<1>4. LockInv'
  BY DEF LockInv, Locked, TypeOK
<1> QED
  BY <1>1, <1>2, <1>3, <1>4

LEMMA AfterEnsureGoto ==
    ASSUME IInv, NEW h \in Handlers, AfterEnsure(h)
    PROVE  \E l \in {"register", "unregister", "commit"} :
             /\ Goto(h, l)
             /\ l = "register" <=> op[h] = "create"
             /\ l = "unregister" <=> op[h] = "remove"
BY DEF AfterEnsure, IInv, TypeOK, Ops

LEMMA UpdateOtherRecordInv ==
    ASSUME IInv, NEW h \in Handlers, UpdateOtherRecord(h) PROVE IInv'
<1>1. db' = [k \in KeyIds |-> IF k \in found[h] \cap Defaults THEN "plain"
                                                              ELSE db[k]]
  BY DEF UpdateOtherRecord
<1>2. db' \in [KeyIds -> Flags] /\ Rows' = Rows
  <2>1. \A k \in Defaults : db[k] = "default"
    BY DEF Defaults
  <2> QED
    BY <1>1, <2>1 DEF IInv, TypeOK, Flags, Rows
<1>3. /\ pc[h] = "clear" /\ Goto(h, "write") /\ "write" \in PCs
      /\ found' = [found EXCEPT ![h] = {}]
      /\ UNCHANGED <<vault, used, op, own, flag, target, disturbed, missed>>
  BY DEF UpdateOtherRecord, PCs, history
<1> USE DEF IInv, Goto
<1>4. TypeOK' /\ ContextInv'
  BY <1>2, <1>3 DEF TypeOK, ContextInv
<1>5. FreshInv'
  BY <1>2, <1>3 DEF FreshInv, TypeOK
<1>6. LockInv'
  BY <1>2, <1>3 DEF LockInv, Locked, TypeOK
<1> QED
  BY <1>4, <1>5, <1>6

LEMMA EnsureDefaultRecordInv ==
    ASSUME IInv, NEW h \in Handlers, EnsureDefaultRecord(h) PROVE IInv'
<1>1. PICK k \in target[h] :
        \/ db[k] = "none" /\ Answer(h) /\ UNCHANGED db
        \/ /\ db[k] # "none"
           /\ db' = [db EXCEPT ![k] = "default"]
           /\ AfterEnsure(h)
           /\ target' = [target EXCEPT ![h] = {}]
           /\ UNCHANGED <<op, own, flag, found>>
  BY DEF EnsureDefaultRecord
<1>2. pc[h] = "promote" /\ UNCHANGED <<vault, used, disturbed, missed>>
  BY DEF EnsureDefaultRecord, history
<1>3. CASE Answer(h) /\ UNCHANGED db
  BY <1>2, <1>3, AnswerInv
<1>4. CASE db[k] # "none" /\ db' = [db EXCEPT ![k] = "default"] /\ AfterEnsure(h)
             /\ target' = [target EXCEPT ![h] = {}]
             /\ UNCHANGED <<op, own, flag, found>>
  <2>1. db' \in [KeyIds -> Flags] /\ Rows' = Rows
    BY <1>4 DEF IInv, TypeOK, Flags, Rows
  <2>2. PICK l \in {"register", "unregister", "commit"} :
           /\ Goto(h, l)
           /\ l = "register" <=> op[h] = "create"
           /\ l = "unregister" <=> op[h] = "remove"
    BY <1>4, AfterEnsureGoto
  <2>3. l \in PCs
    BY DEF PCs
  <2> QED
    BY <1>2, <1>4, <2>1, <2>2, <2>3, NestedInv DEF history
<1> QED
  BY <1>1, <1>3, <1>4

-----------------------------------------------------------------------------
LEMMA InsertRowInv ==
    ASSUME IInv, NEW h \in Handlers, InsertRow(h) PROVE IInv'
<1> USE DEF IInv, InsertRow, Goto, request, history
<1>1. Rows' = Rows
  BY DEF Rows
<1>2. TypeOK' /\ ContextInv'
  BY DEF TypeOK, PCs, ContextInv
<1>3. FreshInv'
  BY <1>1 DEF FreshInv
<1>4. \A g \in Handlers \ {h} : Locked(g)' = Locked(g) /\ Locked(g) \cap own[h] = {}
  BY DEF Locked, FreshInv, TypeOK
<1>5. LockInv'
  BY <1>1, <1>4 DEF LockInv, Locked, TypeOK
<1> QED
  BY <1>2, <1>3, <1>5

LEMMA UpdateRowInv ==
    ASSUME IInv, NEW h \in Handlers, UpdateRow(h) PROVE IInv'
<1>1. PICK k \in own[h] :
        \/ db[k] = "none" /\ Answer(h)
        \/ /\ db[k] # "none"
           /\ flag' = [flag EXCEPT ![h] = IF @ = "keep" THEN db[k] ELSE @]
           /\ Goto(h, "ensure")
           /\ UNCHANGED <<op, own, found, target>>
  BY DEF UpdateRow
<1>2. /\ pc[h] = "write" /\ op[h] = "patch" /\ Unlocked(h, own[h])
      /\ UNCHANGED <<db, vault, used, disturbed, missed>>
  BY DEF UpdateRow, history
<1>3. CASE Answer(h)
  BY <1>2, <1>3, AnswerInv
<1>4. CASE /\ db[k] # "none"
           /\ flag' = [flag EXCEPT ![h] = IF @ = "keep" THEN db[k] ELSE @]
           /\ Goto(h, "ensure")
           /\ UNCHANGED <<op, own, found, target>>
  <2> USE DEF IInv, Goto
  <2>1. Rows' = Rows /\ k \in KeyIds /\ own[h] = {k} /\ k \in Rows
    BY <1>2, <1>4 DEF Rows, ContextInv, TypeOK
  <2>2. TypeOK'
    BY <1>2, <1>4, <2>1 DEF TypeOK, PCs, Flags
  <2>3. ContextInv'
    <3>1. flag'[h] # "none" /\ flag'[h] # "keep"
      BY <1>2, <1>4, <2>1 DEF ContextInv, TypeOK, Flags
    <3>2. \A g \in Handlers : g # h => flag'[g] = flag[g] /\ pc'[g] = pc[g]
      BY <1>4 DEF TypeOK
    <3> QED
      BY <1>2, <1>4, <2>1, <3>1, <3>2 DEF ContextInv, TypeOK
  <2>4. FreshInv'
    BY <1>2, <1>4, <2>1 DEF FreshInv
  <2>5. LockInv'
    BY <1>2, <1>4, <2>1 DEF LockInv, Locked, Unlocked, TypeOK
  <2> QED
    BY <2>2, <2>3, <2>4, <2>5
<1> QED
  BY <1>1, <1>3, <1>4

LEMMA SelectRowsInv ==
    ASSUME IInv, NEW h \in Handlers, SelectRows(h) PROVE IInv'
<1> USE DEF IInv, SelectRows, Goto, history
<1>1. Rows' = Rows /\ Rows \subseteq KeyIds
  BY DEF Rows
<1>2. op[h] = "remove"
  BY DEF ContextInv
<1>3. TypeOK' /\ ContextInv'
  BY <1>1, <1>2 DEF TypeOK, PCs, ContextInv
<1>4. FreshInv'
  BY <1>1, <1>2 DEF FreshInv, TypeOK
<1>5. LockInv'
  BY <1>1, <1>2 DEF LockInv, Locked, TypeOK
<1> QED
  BY <1>3, <1>4, <1>5

LEMMA DeleteRowsInv ==
    ASSUME IInv, NEW h \in Handlers, DeleteRows(h) PROVE IInv'
<1> USE DEF IInv, DeleteRows, Goto, history
<1>1. Rows' = Rows /\ Rows \subseteq KeyIds
  BY DEF Rows
<1>2. TypeOK' /\ ContextInv'
  BY <1>1 DEF TypeOK, PCs, ContextInv
<1>3. FreshInv'
  BY <1>1 DEF FreshInv, TypeOK
<1>4. LockInv'
  BY <1>1 DEF LockInv, Locked, Unlocked, TypeOK
<1> QED
  BY <1>2, <1>3, <1>4

\* A hook that changes neither rows nor the request, while h keeps its locks.
LEMMA HookInv ==
    ASSUME IInv, NEW h \in Handlers, NEW l \in PCs, Goto(h, l),
           pc[h] \notin {"idle", "clear", "select", "write"},
           l \notin {"idle", "clear", "select", "write", "promote"},
           vault' \subseteq vault \cup own[h],
           UNCHANGED <<db, used, op, own, flag, found, target, history>>,
           l = "register" => op[h] = "create",
           l = "unregister" => op[h] = "remove"
    PROVE  IInv'
<1> USE DEF IInv, Goto, history
<1>1. Rows' = Rows
  BY DEF Rows
<1>2. TypeOK' /\ ContextInv'
  BY DEF TypeOK, ContextInv
<1>3. FreshInv'
  BY <1>1 DEF FreshInv
<1>4. LockInv'
  BY <1>1 DEF LockInv, Locked, TypeOK
<1> QED
  BY <1>2, <1>3, <1>4

LEMMA CountDefaultRecordsInv ==
    ASSUME IInv, NEW h \in Handlers, CountDefaultRecords(h) PROVE IInv'
<1>1. /\ pc[h] = "ensure"
      /\ UNCHANGED <<db, vault, used, op, own, flag, found, target, history>>
      /\ AfterEnsure(h) \/ Goto(h, "choose")
  BY DEF CountDefaultRecords, request
<1>2. PICK l \in {"register", "unregister", "commit", "choose"} :
        /\ Goto(h, l)
        /\ l = "register" => op[h] = "create"
        /\ l = "unregister" => op[h] = "remove"
  BY <1>1, AfterEnsureGoto
<1> QED
  BY <1>1, <1>2, HookInv DEF PCs

LEMMA ChooseDefaultRecordInv ==
    ASSUME IInv, NEW h \in Handlers, ChooseDefaultRecord(h) PROVE IInv'
<1>1. pc[h] = "choose" /\ UNCHANGED <<db, vault, used, op, own, flag, found, history>>
  BY DEF ChooseDefaultRecord
<1>2. CASE AfterEnsure(h) /\ UNCHANGED target
  <2>1. PICK l \in {"register", "unregister", "commit"} :
          /\ Goto(h, l)
          /\ l = "register" <=> op[h] = "create"
          /\ l = "unregister" <=> op[h] = "remove"
    BY <1>2, AfterEnsureGoto
  <2> QED
    BY <1>1, <1>2, <2>1, HookInv DEF PCs
<1>3. CASE /\ \E k \in Rows \ own[h] : target' = [target EXCEPT ![h] = {k}]
           /\ Goto(h, "promote")
  <2>1. PICK k \in Rows \ own[h] : target' = [target EXCEPT ![h] = {k}]
    BY <1>3
  <2> USE DEF IInv, Goto, history
  <2>2. Rows' = Rows /\ k \in KeyIds
    BY <1>1 DEF Rows
  <2>3. TypeOK' /\ ContextInv'
    BY <1>1, <1>3, <2>1, <2>2 DEF TypeOK, PCs, ContextInv
  <2>4. FreshInv'
    BY <1>1, <1>3, <2>1, <2>2 DEF FreshInv, TypeOK
  <2>5. LockInv'
    BY <1>1, <1>3, <2>2 DEF LockInv, Locked, TypeOK
  <2> QED
    BY <2>3, <2>4, <2>5
<1> QED
  BY <1>2, <1>3 DEF ChooseDefaultRecord

LEMMA VaultHooksInv ==
    ASSUME IInv, NEW h \in Handlers,
           RegisterPublicKey(h) \/ UnregisterPublicKey(h)
    PROVE  IInv'
<1>1. /\ pc[h] \in {"register", "unregister"} /\ Goto(h, "commit")
      /\ UNCHANGED <<db, used, op, own, flag, found, target, history>>
      /\ vault' \subseteq vault \cup own[h]
  BY DEF RegisterPublicKey, UnregisterPublicKey, request
<1> QED
  BY <1>1, HookInv DEF PCs

\* What a commit does to the rows.
LEMMA CommitEffect ==
    ASSUME IInv, NEW h \in Handlers, Commit(h)
    PROVE  /\ db' \in [KeyIds -> Flags]
           /\ Rows' = IF op[h] = "remove" THEN Rows \ own[h] ELSE Rows \cup own[h]
           /\ op[h] = "patch" => Rows' = Rows
<1>1. /\ pc[h] = "commit" /\ own[h] \subseteq KeyIds
      /\ flag[h] \in Flags
      /\ flag[h] = "none" <=> op[h] = "remove"
  BY DEF Commit, IInv, TypeOK, ContextInv, Flags, Ops
<1>2. db' = [k \in KeyIds |-> IF k \in own[h] THEN flag[h] ELSE db[k]]
  BY DEF Commit
<1>3. db' \in [KeyIds -> Flags]
  BY <1>1, <1>2 DEF IInv, TypeOK
<1>4. Rows' = IF op[h] = "remove" THEN Rows \ own[h] ELSE Rows \cup own[h]
  BY <1>1, <1>2 DEF Rows
<1>5. op[h] = "patch" => own[h] \subseteq Rows
  BY <1>1 DEF IInv, LockInv, Locked
<1> QED
  BY <1>3, <1>4, <1>5

LEMMA CommitInv ==
    ASSUME IInv, NEW h \in Handlers, Commit(h) PROVE IInv'
<1> USE DEF IInv
<1>1. /\ pc[h] = "commit" /\ UNCHANGED <<vault, used, disturbed>>
      /\ missed' \subseteq missed \cup own[h]
      /\ pc' = [pc EXCEPT ![h] = "idle"]
      /\ op' = [op EXCEPT ![h] = "create"]
      /\ own' = [own EXCEPT ![h] = {}]
      /\ flag' = [flag EXCEPT ![h] = "none"]
      /\ found' = [found EXCEPT ![h] = {}]
      /\ target' = [target EXCEPT ![h] = {}]
  BY DEF Commit, Answer, Goto
<1>2. /\ db' \in [KeyIds -> Flags]
      /\ Rows' = IF op[h] = "remove" THEN Rows \ own[h] ELSE Rows \cup own[h]
      /\ op[h] = "patch" => Rows' = Rows
  BY CommitEffect
<1>3. TypeOK'
  BY <1>1, <1>2 DEF TypeOK, PCs, Ops, Flags
<1>4. ContextInv'
  BY <1>1 DEF ContextInv, TypeOK
<1>5. FreshInv'
  <2>1. Rows' \subseteq used' /\ vault' \subseteq used'
    BY <1>1, <1>2 DEF FreshInv
  <2>2. \A g \in Handlers : op'[g] = "create" => own'[g] \cap Rows' = {}
    BY <1>1, <1>2 DEF FreshInv, TypeOK, Ops
  <2> QED
    BY <1>1, <2>1, <2>2 DEF FreshInv, TypeOK
<1>6. LockInv'
  <2>1. \A g \in Handlers : g # h => Locked(g)' = Locked(g) /\ op'[g] = op[g]
    BY <1>1 DEF Locked, TypeOK
  <2>2. Locked(h)' = {} /\ Locked(h) = own[h]
    BY <1>1 DEF Locked, TypeOK
  <2>3. ASSUME NEW g \in Handlers, op'[g] = "patch" PROVE Locked(g)' \subseteq Rows'
    <3>1. g # h
      BY <1>1, <2>3 DEF TypeOK
    <3>2. Locked(g) \cap own[h] = {} /\ Locked(g) \subseteq Rows
      BY <2>1, <2>2, <2>3, <3>1 DEF LockInv
    <3> QED
      BY <1>2, <2>1, <3>1, <3>2
  <2>4. ASSUME NEW g \in Handlers, op'[g] = "remove", pc'[g] # "select"
        PROVE  found'[g] \cap Rows' \subseteq own'[g]
    <3>1. /\ g # h /\ op[g] = "remove" /\ pc[g] # "select"
          /\ found'[g] = found[g] /\ own'[g] = own[g]
      BY <1>1, <2>4 DEF TypeOK
    <3>2. op[h] = "create" => own[h] \cap found[g] = {}
      BY <3>1 DEF FreshInv
    <3>3. found[g] \cap Rows' \subseteq Rows
      BY <1>2, <3>2 DEF TypeOK, Ops
    <3> QED
      BY <3>1, <3>3 DEF LockInv
  <2> QED
    BY <2>1, <2>2, <2>3, <2>4 DEF LockInv
<1> QED
  BY <1>3, <1>4, <1>5, <1>6

LEMMA StutterInv == ASSUME IInv, UNCHANGED vars PROVE IInv'
BY DEF IInv, vars, TypeOK, ContextInv, FreshInv, LockInv, Locked, Rows

\* IInv is inductive.
LEMMA StepInv == ASSUME IInv, [Next]_vars PROVE IInv'
<1>1. ASSUME NEW h \in Handlers, Step(h) PROVE IInv'
  BY <1>1, UpdateOtherRecordInv, InsertRowInv, UpdateRowInv, SelectRowsInv, DeleteRowsInv,
     CountDefaultRecordsInv, ChooseDefaultRecordInv, EnsureDefaultRecordInv,
     VaultHooksInv, CommitInv DEF Step
<1>2. ASSUME NEW h \in Handlers, Fail(h) PROVE IInv'
  BY <1>2, AnswerInv DEF Fail
<1> QED
  BY <1>1, <1>2, CreateKeyInv, PatchKeyInv, RemoveKeysInv, StutterInv DEF Next

\* Whatever requests are interleaved and whatever fails, the strengthening IInv
\* (contexts of handlers, freshness of ids, what the locks protect) holds.
THEOREM Invariance == Spec => []IInv
<1>1. IInv /\ [Next]_vars => IInv'
  BY StepInv
<1> QED
  BY <1>1, InitInv, PTL DEF Spec

\* Every variable keeps its type.
THEOREM TypeCorrect == Spec => []TypeOK
<1>1. IInv => TypeOK
  BY DEF IInv
<1> QED
  BY <1>1, Invariance, PTL
-----------------------------------------------------------------------------
(***************************************************************************)
(* Rows and Vault.                                                         *)
(***************************************************************************)
\* The rows and Vault disagree about a key only between the call of Vault and
\* the commit of one request, or because a DELETE has missed the key.
VaultInv ==
    /\ \A k \in KeyIds : ~ (k \in Rows <=> k \in vault) =>
         \/ k \in missed /\ k \notin Rows
         \/ \E h \in Handlers : k \in own[h] /\ pc[h] = "commit" /\ op[h] # "patch"
    /\ \A h \in Handlers :
         op[h] = "create" => IF pc[h] = "commit" THEN own[h] \subseteq vault
                                                 ELSE own[h] \cap vault = {}
    /\ \A h \in Handlers :
         op[h] = "remove" /\ pc[h] = "commit" => found[h] \cap vault = {}

\* The rest of a request is as it was.
OthersSame(h) == \A g \in Handlers \ {h} : /\ pc'[g] = pc[g] /\ op'[g] = op[g]
                                           /\ own'[g] = own[g]
                                           /\ found'[g] = found[g]

LEMMA VaultQuiet ==
    ASSUME IInv, VaultInv, NEW h \in Handlers, Rows' = Rows, vault' = vault,
           missed' = missed, OthersSame(h), pc[h] # "commit",
           pc'[h] = "commit" => op'[h] = "patch",
           op'[h] = "create" => own'[h] \cap vault = {}
    PROVE  VaultInv'
BY DEF VaultInv, OthersSame

LEMMA VaultStart ==
    ASSUME IInv, VaultInv, NEW h \in Handlers, UNCHANGED <<db, vault>>,
           NEW o \in Ops, NEW rows \in SUBSET KeyIds, NEW f, NEW others,
           NEW l \in {"clear", "select", "write"}, Start(h, o, rows, f, others, l),
           o = "create" => rows \cap used = {}
    PROVE  VaultInv'
<1>1. Rows' = Rows /\ missed' = missed
  BY DEF Rows, Start
<1>2. OthersSame(h)
  BY DEF Start, Goto, OthersSame, IInv, TypeOK
<1>3. /\ pc[h] = "idle" /\ pc'[h] = l /\ op'[h] = o /\ own'[h] = rows
      /\ vault \subseteq used
  BY DEF Start, Goto, IInv, TypeOK, FreshInv
<1> QED
  BY <1>1, <1>2, <1>3, VaultQuiet

LEMMA VaultAnswer ==
    ASSUME IInv, VaultInv, NEW h \in Handlers, UNCHANGED <<db, vault, missed>>,
           pc[h] # "commit", Answer(h)
    PROVE  VaultInv'
<1>1. Rows' = Rows
  BY DEF Rows
<1>2. OthersSame(h) /\ pc'[h] = "idle" /\ own'[h] = {}
  BY DEF Answer, Goto, OthersSame, IInv, TypeOK
<1> QED
  BY <1>1, <1>2, VaultQuiet

\* A step before Vault is called.
LEMMA VaultStep ==
    ASSUME IInv, VaultInv, NEW h \in Handlers, UNCHANGED <<vault, op, missed>>,
           \A g \in Handlers \ {h} : own'[g] = own[g] /\ found'[g] = found[g],
           op[h] # "remove" => own'[h] = own[h],
           Rows' = Rows, pc[h] # "commit", NEW l \in PCs, Goto(h, l),
           l = "commit" => op[h] = "patch"
    PROVE  VaultInv'
<1>1. OthersSame(h) /\ pc'[h] = l
  BY DEF Goto, OthersSame, IInv, TypeOK
<1> QED
  BY <1>1, VaultQuiet DEF VaultInv

LEMMA VaultHooks ==
    ASSUME IInv, VaultInv, NEW h \in Handlers,
           RegisterPublicKey(h) \/ UnregisterPublicKey(h)
    PROVE  VaultInv'
<1>1. /\ UNCHANGED <<db, op, own, found, missed>> /\ Rows' = Rows /\ OthersSame(h)
      /\ pc'[h] = "commit"
  BY DEF RegisterPublicKey, UnregisterPublicKey, request, history, Goto, OthersSame,
         IInv, TypeOK, Rows
<1>2. \A g \in Handlers \ {h} :
        /\ op[h] = "create" \/ op[g] = "create" => own[g] \cap own[h] = {}
        /\ op[h] = "create" /\ op[g] = "remove" => own[h] \cap found[g] = {}
        /\ op[g] = "create" /\ op[h] = "remove" => own[g] \cap found[h] = {}
  BY DEF IInv, FreshInv
<1>3. CASE RegisterPublicKey(h)
  <2>1. vault' = vault \cup own[h] /\ op[h] = "create" /\ pc[h] = "register"
    BY <1>3 DEF RegisterPublicKey, IInv, ContextInv
  <2> QED
    BY <1>1, <1>2, <2>1 DEF VaultInv, OthersSame
<1>4. CASE UnregisterPublicKey(h)
  <2>1. /\ vault' = vault \ found[h] /\ op[h] = "remove" /\ pc[h] = "unregister"
        /\ found[h] \cap Rows \subseteq own[h]
    BY <1>4 DEF UnregisterPublicKey, IInv, ContextInv, LockInv
  <2> QED
    BY <1>1, <1>2, <2>1 DEF VaultInv, OthersSame
<1> QED
  BY <1>3, <1>4

LEMMA VaultCommit ==
    ASSUME IInv, VaultInv, NEW h \in Handlers, Commit(h) PROVE VaultInv'
<1>1. Rows' = IF op[h] = "remove" THEN Rows \ own[h] ELSE Rows \cup own[h]
  BY CommitEffect
<1>2. op[h] = "patch" => Rows' = Rows
  BY CommitEffect
<1>3. /\ pc[h] = "commit" /\ vault' = vault /\ OthersSame(h)
      /\ pc'[h] = "idle" /\ op'[h] = "create" /\ own'[h] = {}
      /\ op[h] \in {"create", "patch", "remove"}
      /\ missed' = IF op[h] = "remove" THEN missed \cup (own[h] \ found[h]) ELSE missed
  BY DEF Commit, Answer, Goto, OthersSame, IInv, TypeOK, Ops
<1>4. ASSUME NEW k \in KeyIds, ~ (k \in Rows' <=> k \in vault'),
             ~ (k \in missed' /\ k \notin Rows')
      PROVE  \E g \in Handlers : k \in own'[g] /\ pc'[g] = "commit" /\ op'[g] # "patch"
  <2>1. ~ (k \in Rows <=> k \in vault) /\ (op[h] # "patch" => k \notin own[h])
    BY <1>1, <1>2, <1>3, <1>4 DEF VaultInv
  <2>2. k \in missed /\ k \notin Rows => k \notin Rows'
    BY <1>1, <1>2, <1>3, <2>1
  <2> QED
    BY <1>3, <1>4, <2>1, <2>2 DEF VaultInv, OthersSame
<1> QED
  BY <1>3, <1>4 DEF VaultInv, OthersSame

\* The calls of Vault and the commits succeed.
VaultUnharmed == Faults \cap {"register", "unregister", "commit"} = {}

LEMMA VaultInvStep ==
    ASSUME IInv, VaultInv, VaultUnharmed, [Next]_vars PROVE VaultInv'
<1>1. ASSUME NEW h \in Handlers, CreateKey(h) PROVE VaultInv'
  <2>1. PICK k \in KeyIds \ used, f \in CreateFlags :
          \/ Start(h, "create", {k}, f, Defaults, "clear")
          \/ Start(h, "create", {k}, f, {}, "write")
    BY <1>1 DEF CreateKey
  <2>2. UNCHANGED <<db, vault>>
    BY <1>1 DEF CreateKey
  <2> QED
    BY <2>1, <2>2, VaultStart DEF Ops
<1>2. ASSUME NEW h \in Handlers, PatchKey(h) PROVE VaultInv'
  <2>1. PICK k \in Rows, f \in PatchFlags :
          \/ Start(h, "patch", {k}, f, Defaults \ {k}, "clear")
          \/ Start(h, "patch", {k}, f, {}, "write")
    BY <1>2 DEF PatchKey
  <2>2. UNCHANGED <<db, vault>> /\ k \in KeyIds
    BY <1>2 DEF PatchKey, Rows
  <2> QED
    BY <2>1, <2>2, VaultStart DEF Ops
<1>3. ASSUME NEW h \in Handlers, RemoveKeys(h) PROVE VaultInv'
  <2>1. \/ \E k \in Rows : Start(h, "remove", {k}, "none", {k}, "write")
        \/ Start(h, "remove", {}, "none", Rows, "select")
    BY <1>3 DEF RemoveKeys
  <2>2. UNCHANGED <<db, vault>> /\ Rows \subseteq KeyIds
    BY <1>3 DEF RemoveKeys, Rows
  <2> QED
    BY <2>1, <2>2, VaultStart DEF Ops
<1>4. ASSUME NEW h \in Handlers, UpdateOtherRecord(h) PROVE VaultInv'
  <2>1. Rows' = Rows
    BY <1>4 DEF UpdateOtherRecord, Rows, Defaults
  <2>2. /\ pc[h] = "clear" /\ Goto(h, "write") /\ UNCHANGED <<vault, op, own, missed>>
        /\ \A g \in Handlers \ {h} : found'[g] = found[g]
    BY <1>4 DEF UpdateOtherRecord, history, IInv, TypeOK
  <2> QED
    BY <2>1, <2>2, VaultStep DEF PCs
<1>5. ASSUME NEW h \in Handlers, InsertRow(h) \/ SelectRows(h) \/ DeleteRows(h)
      PROVE  VaultInv'
  <2>1. /\ pc[h] \in {"select", "write"}
        /\ Goto(h, "ensure") \/ Goto(h, "write")
        /\ UNCHANGED <<db, vault, op, found, missed>>
        /\ \A g \in Handlers \ {h} : own'[g] = own[g]
        /\ op[h] # "remove" => own' = own
    BY <1>5 DEF InsertRow, SelectRows, DeleteRows, request, history, IInv, TypeOK,
                ContextInv
  <2> QED
    BY <2>1, VaultStep DEF PCs, Rows
<1>6. ASSUME NEW h \in Handlers, UpdateRow(h) PROVE VaultInv'
  <2>1. \/ Answer(h)
        \/ Goto(h, "ensure") /\ UNCHANGED <<op, own, found>>
    BY <1>6 DEF UpdateRow
  <2>2. pc[h] = "write" /\ UNCHANGED <<db, vault, missed>>
    BY <1>6 DEF UpdateRow, history
  <2> QED
    BY <2>1, <2>2, VaultStep, VaultAnswer DEF PCs, Rows
<1>7. ASSUME NEW h \in Handlers,
             CountDefaultRecords(h) \/ ChooseDefaultRecord(h) \/ EnsureDefaultRecord(h)
      PROVE  VaultInv'
  <2>1. /\ pc[h] \in {"ensure", "choose", "promote"} /\ UNCHANGED <<vault, missed>>
        /\ Rows' = Rows
        /\ \/ Answer(h) /\ db' = db
           \/ /\ AfterEnsure(h) \/ Goto(h, "choose") \/ Goto(h, "promote")
              /\ UNCHANGED <<op, own, found>>
    BY <1>7 DEF CountDefaultRecords, ChooseDefaultRecord, EnsureDefaultRecord,
                request, history, Rows, IInv, TypeOK
  <2>2. CASE Answer(h) /\ db' = db
    BY <2>1, <2>2, VaultAnswer
  <2>3. ASSUME AfterEnsure(h) \/ Goto(h, "choose") \/ Goto(h, "promote"),
               UNCHANGED <<op, own, found>>
        PROVE  VaultInv'
    <3>1. PICK l \in PCs : Goto(h, l) /\ (l = "commit" => op[h] = "patch")
      BY <2>3, AfterEnsureGoto DEF PCs, IInv, TypeOK, Ops
    <3> QED
      BY <2>1, <2>3, <3>1, VaultStep
  <2> QED
    BY <2>1, <2>2, <2>3
<1>8. ASSUME NEW h \in Handlers, Fail(h) PROVE VaultInv'
  <2>1. /\ pc[h] \notin {"unregister", "commit"} /\ Answer(h)
        /\ UNCHANGED <<db, vault, missed>>
    BY <1>8 DEF Fail, VaultUnharmed
  <2> QED
    BY <2>1, VaultAnswer
<1>9. ASSUME UNCHANGED vars PROVE VaultInv'
  BY <1>9 DEF vars, VaultInv, Rows
<1> QED
  BY <1>1, <1>2, <1>3, <1>4, <1>5, <1>6, <1>7, <1>8, <1>9, VaultHooks, VaultCommit
  DEF Next, Step

LEMMA VaultInvImplies ==
    ASSUME IInv, VaultInv PROVE VaultMatches
<1>1. \A h \in Handlers : pc[h] = "commit" => Locked(h) = own[h]
  BY DEF Locked
<1>2. \A h \in Handlers : op[h] \in {"create", "patch", "remove"}
  BY DEF IInv, TypeOK, Ops
<1>3. Rows \subseteq KeyIds /\ vault \subseteq KeyIds
  BY DEF Rows, IInv, TypeOK
<1> QED
  BY <1>1, <1>2, <1>3 DEF VaultInv, VaultMatches, KeyInVault, NothingLeftInVault

\* As long as the calls of Vault and the commits succeed, a key that the
\* database has can be fetched from Vault, and Vault keeps nothing of a key
\* that is gone, however requests are interleaved and whatever else fails.
THEOREM VaultInStep ==
    VaultUnharmed => (Spec => []VaultMatches)
<1> SUFFICES ASSUME VaultUnharmed
             PROVE  Spec => []VaultMatches
  OBVIOUS
<1>1. Init => VaultInv
  BY DEF Init, VaultInv, Rows
<1>2. IInv /\ VaultInv /\ [Next]_vars => VaultInv'
  BY VaultInvStep
<1>3. IInv /\ VaultInv => VaultMatches
  BY VaultInvImplies
<1> QED
  BY <1>1, <1>2, <1>3, Invariance, PTL DEF Spec

-----------------------------------------------------------------------------
(***************************************************************************)
(* Waiting.                                                                *)
(***************************************************************************)
\* Clients create keys and turn them on, and nothing else.
OnlyTurnedOn == Removing = FALSE /\ PatchFlags \subseteq {"default"}

\* Only creates come to look for a key to promote.
PromoterInv ==
    \A h \in Handlers :
        /\ op[h] \in {"create", "patch"}
        /\ op[h] = "patch" => flag[h] = "default" /\ pc[h] \notin {"choose", "promote"}

LEMMA PromoterInvStep ==
    ASSUME IInv, PromoterInv, OnlyTurnedOn, [Next]_vars PROVE PromoterInv'
<1> USE DEF IInv, TypeOK, PromoterInv, Goto
<1>1. ASSUME NEW h \in Handlers, CreateKey(h) \/ PatchKey(h) \/ RemoveKeys(h)
      PROVE  PromoterInv'
  BY <1>1 DEF OnlyTurnedOn, CreateKey, PatchKey, RemoveKeys, Start
<1>2. ASSUME NEW h \in Handlers,
             \/ UpdateOtherRecord(h) \/ InsertRow(h) \/ SelectRows(h) \/ DeleteRows(h)
             \/ RegisterPublicKey(h) \/ UnregisterPublicKey(h)
      PROVE  PromoterInv'
  BY <1>2 DEF UpdateOtherRecord, InsertRow, SelectRows, DeleteRows,
              RegisterPublicKey, UnregisterPublicKey, request
<1>3. ASSUME NEW h \in Handlers, UpdateRow(h) PROVE PromoterInv'
  BY <1>3 DEF UpdateRow, Answer
<1>4. ASSUME NEW h \in Handlers,
             CountDefaultRecords(h) \/ ChooseDefaultRecord(h) \/ EnsureDefaultRecord(h)
      PROVE  PromoterInv'
  BY <1>4 DEF CountDefaultRecords, ChooseDefaultRecord, EnsureDefaultRecord,
              AfterEnsure, Answer, request
<1>5. ASSUME NEW h \in Handlers, Commit(h) \/ Fail(h) PROVE PromoterInv'
  BY <1>5 DEF Commit, Fail, Answer
<1>6. ASSUME UNCHANGED vars PROVE PromoterInv'
  BY <1>6 DEF vars
<1> QED
  BY <1>1, <1>2, <1>3, <1>4, <1>5, <1>6 DEF Next, Step

LEMMA SomeRequestGoesOn == ASSUME IInv, PromoterInv PROVE NoCyclicWait
<1> SUFFICES ASSUME \A h \in Handlers : pc[h] # "idle" => Waiting(h),
                    NEW h \in Handlers, pc[h] # "idle"
             PROVE  FALSE
  BY DEF NoCyclicWait, Settled
<1>1. ASSUME NEW g \in Handlers, pc[g] # "idle"
      PROVE  \E f \in Handlers : f # g /\ Locked(f) # {}
  BY <1>1 DEF Waiting, Unlocked
<1>2. ASSUME NEW g \in Handlers, Locked(g) # {}
      PROVE  pc[g] = "promote" /\ op[g] = "create" /\ Locked(g) = own[g]
  <2>1. pc[g] \notin {"idle", "clear", "write"} /\ Locked(g) = own[g]
    BY <1>2 DEF Locked
  <2>2. pc[g] = "promote"
    BY <2>1 DEF Waiting, Unlocked
  <2> QED
    BY <2>1, <2>2 DEF PromoterInv
<1>3. PICK g \in Handlers : Locked(g) # {}
  BY <1>1
<1>4. pc[g] = "promote"
  BY <1>2, <1>3
<1>5. PICK f \in Handlers : f # g /\ target[g] \cap Locked(f) # {}
  BY <1>4 DEF Waiting, Unlocked
<1>6. op[f] = "create" /\ Locked(f) = own[f]
  BY <1>2, <1>5
<1> QED
  BY <1>5, <1>6 DEF IInv, FreshInv

\* When clients only create keys and turn them on, any number of requests
\* never wait for each other in a circle, though each holds locks in its own
\* transaction while its nested calls wait in theirs.
THEOREM SomeoneGoesOn == OnlyTurnedOn => (Spec => []NoCyclicWait)
<1> SUFFICES ASSUME OnlyTurnedOn PROVE Spec => []NoCyclicWait
  OBVIOUS
<1>1. Init => PromoterInv
  BY DEF Init, PromoterInv
<1>2. IInv /\ PromoterInv /\ [Next]_vars => PromoterInv'
  BY PromoterInvStep
<1>3. IInv /\ PromoterInv => NoCyclicWait
  BY SomeRequestGoesOn
<1> QED
  BY <1>1, <1>2, <1>3, Invariance, PTL DEF Spec

-----------------------------------------------------------------------------
(***************************************************************************)
(* The default key.                                                        *)
(***************************************************************************)
\* Clients create keys, turn them on or edit them, and no call fails.
NothingTurnedOff ==
    Removing = FALSE /\ PatchFlags \subseteq {"default", "keep"} /\ Faults = {}

\* Without removals the rows that a request is about stay; a row that a request
\* locks without turning it on is not the default.
KeptInv ==
    \A h \in Handlers :
        /\ op[h] \in {"create", "patch"}
        /\ op[h] = "patch" => own[h] \subseteq Rows
        /\ pc[h] = "promote" => target[h] \subseteq Rows \ own[h]
        /\ op[h] = "create" /\ pc[h] # "idle" /\ flag[h] = "plain" => Rows # {}
        /\ op[h] = "patch" /\ flag[h] = "plain" =>
              /\ pc[h] \notin {"idle", "clear", "write"}
              /\ \A k \in own[h] : db[k] = "plain"

\* A step of h that keeps all rows and turns no locked row on.
LEMMA KeptQuiet ==
    ASSUME IInv, KeptInv, NEW h \in Handlers, Rows \subseteq Rows',
           \A g \in Handlers \ {h} : /\ pc'[g] = pc[g] /\ op'[g] = op[g]
                                     /\ own'[g] = own[g] /\ flag'[g] = flag[g]
                                     /\ target'[g] = target[g],
           \A g \in Handlers, k \in KeyIds :
              g # h /\ k \in Locked(g) /\ db[k] = "plain" => db'[k] = "plain",
           op'[h] \in {"create", "patch"},
           op'[h] = "patch" => own'[h] \subseteq Rows,
           pc'[h] = "promote" => target'[h] \subseteq Rows \ own'[h],
           op'[h] = "create" /\ pc'[h] # "idle" /\ flag'[h] = "plain" => Rows # {},
           op'[h] = "patch" /\ flag'[h] = "plain" =>
              /\ pc'[h] \notin {"idle", "clear", "write"}
              /\ \A k \in own[h] : db'[k] = "plain"
              /\ own'[h] = own[h]
    PROVE  KeptInv'
<1>1. ASSUME NEW g \in Handlers, g # h, op[g] = "patch", flag[g] = "plain"
      PROVE  \A k \in own[g] : db'[k] = "plain"
  <2>1. own[g] = Locked(g) /\ \A k \in own[g] : k \in KeyIds /\ db[k] = "plain"
    BY <1>1 DEF KeptInv, Locked, IInv, TypeOK, ContextInv
  <2> QED
    BY <1>1, <2>1
<1> QED
  BY <1>1 DEF KeptInv

LEMMA KeptInvStep ==
    ASSUME IInv, KeptInv, NothingTurnedOff, [Next]_vars PROVE KeptInv'
<1> USE DEF IInv, TypeOK, Goto
<1>1. ASSUME NEW h \in Handlers, CreateKey(h) \/ PatchKey(h) \/ RemoveKeys(h)
      PROVE  KeptInv'
  <2>1. UNCHANGED db /\ Rows' = Rows
    BY <1>1 DEF CreateKey, PatchKey, RemoveKeys, Rows
  <2>2. CASE CreateKey(h)
    BY <2>1, <2>2, KeptQuiet DEF CreateKey, Start
  <2>3. CASE PatchKey(h)
    BY <2>1, <2>3, KeptQuiet DEF PatchKey, Start, NothingTurnedOff
  <2> QED
    BY <1>1, <2>2, <2>3 DEF RemoveKeys, NothingTurnedOff
<1>2. ASSUME NEW h \in Handlers, UpdateOtherRecord(h) PROVE KeptInv'
  <2>1. Rows' = Rows
    BY <1>2 DEF UpdateOtherRecord, Rows, Defaults
  <2> QED
    BY <1>2, <2>1, KeptQuiet DEF UpdateOtherRecord, KeptInv
<1>3. ASSUME NEW h \in Handlers,
             \/ InsertRow(h) \/ CountDefaultRecords(h)
             \/ RegisterPublicKey(h) \/ UnregisterPublicKey(h)
      PROVE  KeptInv'
  <2>1. /\ UNCHANGED <<db, op, own, flag, target>> /\ Rows' = Rows
        /\ pc[h] \notin {"idle", "clear", "promote"}
        /\ \E l \in {"ensure", "choose", "register", "unregister", "commit"} : Goto(h, l)
    BY <1>3, AfterEnsureGoto
    DEF InsertRow, CountDefaultRecords, RegisterPublicKey, UnregisterPublicKey,
        request, Rows
  <2> QED
    BY <2>1 DEF KeptInv
<1>4. ASSUME NEW h \in Handlers, UpdateRow(h) PROVE KeptInv'
  <2>1. UNCHANGED db /\ Rows' = Rows /\ op[h] = "patch" /\ pc[h] = "write"
    BY <1>4 DEF UpdateRow, Rows
  <2>2. PICK k \in own[h] :
          \/ Answer(h)
          \/ /\ flag' = [flag EXCEPT ![h] = IF @ = "keep" THEN db[k] ELSE @]
             /\ Goto(h, "ensure")
             /\ UNCHANGED <<op, own, target>>
    BY <1>4 DEF UpdateRow
  <2>3. own[h] = {k}
    BY <2>1 DEF ContextInv
  <2>4. CASE Answer(h)
    BY <2>1, <2>4, KeptQuiet DEF Answer
  <2>5. CASE /\ flag' = [flag EXCEPT ![h] = IF @ = "keep" THEN db[k] ELSE @]
             /\ Goto(h, "ensure")
             /\ UNCHANGED <<op, own, target>>
    <3>1. flag'[h] = "plain" => db[k] = "plain"
      BY <2>1, <2>5 DEF KeptInv
    <3> QED
      BY <2>1, <2>3, <2>5, <3>1, KeptQuiet DEF KeptInv
  <2> QED
    BY <2>2, <2>4, <2>5
<1>5. ASSUME NEW h \in Handlers, ChooseDefaultRecord(h) PROVE KeptInv'
  <2>1. UNCHANGED <<db, op, own, flag>> /\ Rows' = Rows /\ pc[h] = "choose"
    BY <1>5 DEF ChooseDefaultRecord, Rows
  <2>2. \/ /\ \E l \in {"register", "unregister", "commit"} : Goto(h, l)
           /\ UNCHANGED target
        \/ /\ \E k \in Rows \ own[h] : target' = [target EXCEPT ![h] = {k}]
           /\ Goto(h, "promote")
    BY <1>5, AfterEnsureGoto DEF ChooseDefaultRecord
  <2> QED
    BY <2>1, <2>2 DEF KeptInv
<1>6. ASSUME NEW h \in Handlers, EnsureDefaultRecord(h) PROVE KeptInv'
  <2>1. PICK k \in target[h] : \/ db[k] = "none"
                               \/ /\ db[k] # "none"
                                  /\ db' = [db EXCEPT ![k] = "default"]
                                  /\ AfterEnsure(h)
                                  /\ target' = [target EXCEPT ![h] = {}]
                                  /\ UNCHANGED <<op, own, flag>>
    BY <1>6 DEF EnsureDefaultRecord
  <2>2. pc[h] = "promote" /\ Unlocked(h, target[h])
    BY <1>6 DEF EnsureDefaultRecord
  <2>3. k \in Rows /\ k \in KeyIds /\ k \notin own[h]
    BY <2>1, <2>2 DEF KeptInv, Rows
  <2>4. /\ db' = [db EXCEPT ![k] = "default"] /\ UNCHANGED <<op, own, flag>>
        /\ target' = [target EXCEPT ![h] = {}]
        /\ \E l \in {"register", "unregister", "commit"} : Goto(h, l)
    BY <2>1, <2>3, AfterEnsureGoto DEF Rows
  <2>5. Rows' = Rows
    BY <2>3, <2>4 DEF Rows
  <2>6. \A g \in Handlers : g # h => k \notin Locked(g)
    BY <2>1, <2>2 DEF Unlocked
  <2>7. op[h] = "patch" /\ flag[h] = "plain" => \A j \in own[h] : db'[j] = "plain"
    BY <2>3, <2>4 DEF KeptInv
  <2> QED
    BY <2>2, <2>3, <2>4, <2>5, <2>6, <2>7, KeptQuiet DEF KeptInv
<1>7. ASSUME NEW h \in Handlers, Commit(h) PROVE KeptInv'
  <2>1. Rows \subseteq Rows'
    BY <1>7, CommitEffect DEF KeptInv
  <2>2. \A g \in Handlers : g # h => Locked(g) \cap own[h] = {}
    BY <1>7 DEF LockInv, Locked, Commit
  <2> QED
    BY <1>7, <2>1, <2>2, KeptQuiet DEF Commit, Answer
<1>8. ASSUME UNCHANGED vars PROVE KeptInv'
  BY <1>8 DEF vars, KeptInv, Rows
<1>9. ASSUME NEW h \in Handlers, SelectRows(h) \/ DeleteRows(h) PROVE FALSE
  BY <1>9 DEF SelectRows, DeleteRows, ContextInv, KeptInv
<1> QED
  BY <1>1, <1>2, <1>3, <1>4, <1>5, <1>6, <1>7, <1>8, <1>9
  DEF Next, Step, Fail, NothingTurnedOff

\* The default key is missing only while a request is about to commit another.
LEMMA DefaultStep ==
    ASSUME IInv, KeptInv, DefaultOrReplacing, NothingTurnedOff, [Next]_vars
    PROVE  DefaultOrReplacing'
<1> USE DEF IInv, TypeOK, Goto
<1>1. ASSUME NEW h \in Handlers, CreateKey(h) \/ PatchKey(h)
      PROVE  DefaultOrReplacing'
  <2>1. /\ Rows' = Rows /\ Defaults' = Defaults /\ pc[h] = "idle"
        /\ \A g \in Handlers \ {h} : pc'[g] = pc[g] /\ flag'[g] = flag[g]
    BY <1>1 DEF CreateKey, PatchKey, Start, Rows, Defaults
  <2> QED
    BY <2>1 DEF DefaultOrReplacing, Replacing
<1>2. ASSUME NEW h \in Handlers, UpdateOtherRecord(h) PROVE DefaultOrReplacing'
  <2>1. Replacing(h)'
    BY <1>2 DEF UpdateOtherRecord, Replacing, ContextInv
  <2> QED
    BY <2>1 DEF DefaultOrReplacing
<1>3. ASSUME NEW h \in Handlers,
             InsertRow(h) \/ CountDefaultRecords(h) \/ RegisterPublicKey(h)
      PROVE  DefaultOrReplacing'
  <2>1. /\ Rows' = Rows /\ Defaults' = Defaults /\ flag' = flag
        /\ \E l \in {"ensure", "choose", "register", "commit"} : Goto(h, l)
    BY <1>3, AfterEnsureGoto DEF InsertRow, CountDefaultRecords,
       RegisterPublicKey, request, Rows, Defaults, KeptInv
  <2> QED
    BY <2>1 DEF DefaultOrReplacing, Replacing
<1>4. ASSUME NEW h \in Handlers,
             SelectRows(h) \/ DeleteRows(h) \/ UnregisterPublicKey(h)
      PROVE  FALSE
  BY <1>4 DEF SelectRows, DeleteRows, UnregisterPublicKey, ContextInv, KeptInv
<1>5. ASSUME NEW h \in Handlers, UpdateRow(h) PROVE DefaultOrReplacing'
  <2>1. PICK k \in own[h] :
          \/ db[k] = "none"
          \/ /\ flag' = [flag EXCEPT ![h] = IF @ = "keep" THEN db[k] ELSE @]
             /\ Goto(h, "ensure")
    BY <1>5 DEF UpdateRow
  <2>2. db[k] # "none" /\ Rows' = Rows /\ Defaults' = Defaults
    BY <1>5 DEF UpdateRow, KeptInv, Rows, Defaults
  <2> QED
    BY <2>1, <2>2 DEF DefaultOrReplacing, Replacing
<1>6. ASSUME NEW h \in Handlers, ChooseDefaultRecord(h) PROVE DefaultOrReplacing'
  <2>1. /\ Rows' = Rows /\ Defaults' = Defaults /\ flag' = flag
        /\ \E l \in {"promote", "register", "commit"} : Goto(h, l)
    BY <1>6, AfterEnsureGoto DEF ChooseDefaultRecord, Rows, Defaults, KeptInv
  <2> QED
    BY <2>1 DEF DefaultOrReplacing, Replacing
<1>7. ASSUME NEW h \in Handlers, EnsureDefaultRecord(h) PROVE DefaultOrReplacing'
  <2>1. PICK k \in target[h] : db[k] = "none" \/ db' = [db EXCEPT ![k] = "default"]
    BY <1>7 DEF EnsureDefaultRecord
  <2>2. db[k] # "none" /\ k \in KeyIds
    BY <1>7, <2>1 DEF EnsureDefaultRecord, KeptInv, Rows
  <2>3. k \in Defaults'
    BY <2>1, <2>2 DEF Defaults
  <2> QED
    BY <2>3 DEF DefaultOrReplacing
<1>8. ASSUME NEW h \in Handlers, Commit(h) PROVE DefaultOrReplacing'
  <2>1. /\ db' = [k \in KeyIds |-> IF k \in own[h] THEN flag[h] ELSE db[k]]
        /\ pc[h] = "commit"
        /\ \A g \in Handlers \ {h} : pc'[g] = pc[g] /\ flag'[g] = flag[g]
    BY <1>8 DEF Commit, Answer
  <2>2. PICK k \in KeyIds : own[h] = {k}
    BY <2>1 DEF ContextInv, KeptInv
  <2>3. CASE flag[h] = "default"
    <3>1. k \in Defaults'
      BY <2>1, <2>2, <2>3 DEF Defaults
    <3> QED
      BY <3>1 DEF DefaultOrReplacing
  <2>4. CASE flag[h] = "plain"
    <3>1. Rows # {} /\ db[k] # "default"
      BY <2>1, <2>2, <2>4 DEF KeptInv, FreshInv, Rows
    <3>2. Defaults \subseteq Defaults'
      BY <2>1, <2>2, <3>1 DEF Defaults
    <3> QED
      BY <2>1, <2>4, <3>1, <3>2 DEF DefaultOrReplacing, Replacing
  <2>5. flag[h] \in {"plain", "default"}
    BY <2>1 DEF ContextInv, KeptInv, Flags
  <2> QED
    BY <2>3, <2>4, <2>5
<1>9. ASSUME UNCHANGED vars PROVE DefaultOrReplacing'
  BY <1>9 DEF vars, DefaultOrReplacing, Replacing, Rows, Defaults
<1> QED
  BY <1>1, <1>2, <1>3, <1>4, <1>5, <1>6, <1>7, <1>8, <1>9
  DEF Next, Step, Fail, RemoveKeys, NothingTurnedOff

\* When clients create keys, turn them on or edit them and no call fails, a
\* user with keys has a default key, or a request that replaces it is running;
\* no interleaving of any number of requests loses it.
THEOREM DefaultKept == NothingTurnedOff => (Spec => []DefaultOrReplacing)
<1> SUFFICES ASSUME NothingTurnedOff PROVE Spec => []DefaultOrReplacing
  OBVIOUS
<1>1. Init => KeptInv /\ DefaultOrReplacing
  BY DEF Init, KeptInv, DefaultOrReplacing, Rows
<1>2. IInv /\ KeptInv /\ [Next]_vars => KeptInv'
  BY KeptInvStep
<1>3. IInv /\ KeptInv /\ DefaultOrReplacing /\ [Next]_vars => DefaultOrReplacing'
  BY DefaultStep
<1> QED
  BY <1>1, <1>2, <1>3, Invariance, PTL DEF Spec
-----------------------------------------------------------------------------
(***************************************************************************)
(* One default key.  As long as no two requests have met and none has      *)
(* failed, the one at work knows what the flags are.                       *)
(***************************************************************************)
\* The default keys as they will be when h commits.
Outcome(h) == (Defaults \ own[h]) \cup (IF flag[h] = "default" THEN own[h] ELSE {})

AtMostOne(S) == \A j, k \in S : j = k

\* What h has found and done, if nobody else was there.
AloneInv(h) ==
    /\ pc[h] = "clear" => /\ Defaults \ own[h] \subseteq found[h]
                          /\ op[h] = "patch" => own[h] \subseteq Rows
    /\ pc[h] \in {"select", "write"} =>
         /\ flag[h] = "default" => Defaults \subseteq own[h]
         /\ flag[h] # "default" => AtMostOne(Defaults) /\ (Rows # {} => Defaults # {})
         /\ op[h] = "create" /\ flag[h] = "plain" => Rows # {}
         /\ op[h] = "patch" => /\ own[h] \subseteq Rows
                               /\ flag[h] = "plain" => Rows # own[h]
    /\ pc[h] \notin {"idle", "clear", "select", "write"} => AtMostOne(Outcome(h))
    /\ pc[h] \in {"ensure", "choose", "promote"} =>
         (op[h] = "remove" \/ flag[h] = "default" \/ ~ Rows \subseteq own[h])
    /\ pc[h] \in {"choose", "promote"} => Outcome(h) = {}
    /\ pc[h] = "promote" => target[h] \subseteq Rows \ own[h]
    /\ pc[h] \in {"register", "unregister", "commit"} =>
         Outcome(h) # {} \/ (op[h] = "remove" /\ Rows \subseteq own[h])

UnmetInv ==
    disturbed = {} =>
        /\ \A g, h \in Handlers : pc[g] # "idle" /\ pc[h] # "idle" => g = h
        /\ AtMostOneDefault /\ DefaultRegistered
        /\ \A h \in Handlers : AloneInv(h)

\* The only request moves on or is answered.
LEMMA UnmetMoves ==
    ASSUME IInv, UnmetInv, disturbed = {}, NEW h \in Handlers, NEW l \in PCs, Goto(h, l),
           Settled \/ pc[h] # "idle",
           l # "idle" => AloneInv(h)',
           l = "idle" => (AtMostOne(Defaults) /\ (Rows # {} => Defaults # {}))'
    PROVE  UnmetInv'
<1>1. \A g \in Handlers : g # h => pc'[g] = "idle"
  BY DEF UnmetInv, Settled, Goto, IInv, TypeOK
<1>2. pc'[h] = l
  BY DEF Goto, IInv, TypeOK
<1>3. \A g \in Handlers : AloneInv(g)'
  BY <1>1, <1>2 DEF AloneInv
<1>4. (AtMostOneDefault /\ DefaultRegistered)'
  BY <1>2 DEF AtMostOneDefault, DefaultRegistered, Settled, AtMostOne
<1> QED
  BY <1>1, <1>3, <1>4 DEF UnmetInv

\* What is known of the only request.
LEMMA Alone ==
    ASSUME UnmetInv, disturbed = {}, NEW h \in Handlers, pc[h] # "idle"
    PROVE  AloneInv(h)
BY DEF UnmetInv

LEMMA UnmetStart ==
    ASSUME IInv, UnmetInv, NEW h \in Handlers, NEW o \in Ops, NEW rows \in SUBSET KeyIds,
           NEW f, NEW others, NEW l \in {"clear", "select", "write"},
           Start(h, o, rows, f, others, l), disturbed' = {}, db' = db,
           l = "clear" => f = "default" /\ Defaults \ rows \subseteq others,
           l # "clear" => f # "default",
           o = "create" /\ f = "plain" => Rows # {},
           o = "patch" => /\ rows \subseteq Rows
                          /\ f = "plain" => Rows # rows
    PROVE  UnmetInv'
<1>1. /\ disturbed = {} /\ Settled
      /\ op'[h] = o /\ own'[h] = rows /\ flag'[h] = f /\ found'[h] = others
      /\ pc'[h] = l /\ Goto(h, l) /\ l \in PCs
  BY DEF Start, Goto, IInv, TypeOK, PCs
<1>2. AtMostOne(Defaults) /\ (Rows # {} => Defaults # {})
  BY <1>1 DEF UnmetInv, AtMostOneDefault, DefaultRegistered, AtMostOne
<1>3. Rows' = Rows /\ Defaults' = Defaults
  BY DEF Rows, Defaults
<1>4. AloneInv(h)'
  BY <1>1, <1>2, <1>3 DEF AloneInv, AtMostOne
<1> QED
  BY <1>1, <1>4, UnmetMoves

LEMMA UnmetRequest ==
    ASSUME IInv, UnmetInv, NEW h \in Handlers, disturbed' = {},
           CreateKey(h) \/ PatchKey(h) \/ RemoveKeys(h)
    PROVE  UnmetInv'
<1>0. db' = db /\ Rows \subseteq KeyIds /\ Defaults \subseteq Rows
  BY DEF CreateKey, PatchKey, RemoveKeys, Rows, Defaults
<1>1. CASE CreateKey(h)
  <2>1. PICK k \in KeyIds \ used :
          \/ Start(h, "create", {k}, "default", Defaults, "clear")
          \/ Rows # {} /\ Start(h, "create", {k}, "plain", {}, "write")
    BY <1>1 DEF CreateKey
  <2> QED
    BY <1>0, <2>1, UnmetStart DEF Ops
<1>2. CASE PatchKey(h)
  <2>1. PICK k \in Rows :
          \/ Start(h, "patch", {k}, "default", Defaults \ {k}, "clear")
          \/ Rows # {k} /\ Start(h, "patch", {k}, "plain", {}, "write")
          \/ Start(h, "patch", {k}, "keep", {}, "write")
    BY <1>2 DEF PatchKey
  <2> QED
    BY <1>0, <2>1, UnmetStart DEF Ops
<1>3. CASE RemoveKeys(h)
  <2>1. \/ \E k \in Rows : Start(h, "remove", {k}, "none", {k}, "write")
        \/ Start(h, "remove", {}, "none", Rows, "select")
    BY <1>3 DEF RemoveKeys
  <2> QED
    BY <1>0, <2>1, UnmetStart DEF Ops
<1> QED
  BY <1>1, <1>2, <1>3

LEMMA UnmetClear ==
    ASSUME IInv, UnmetInv, NEW h \in Handlers, UpdateOtherRecord(h), disturbed' = {}
    PROVE  UnmetInv'
<1>1. /\ disturbed = {} /\ pc[h] = "clear" /\ Goto(h, "write")
      /\ UNCHANGED <<op, own, flag>>
      /\ db' = [k \in KeyIds |-> IF k \in found[h] \cap Defaults THEN "plain" ELSE db[k]]
  BY DEF UpdateOtherRecord, history
<1>2. /\ Defaults \ own[h] \subseteq found[h] /\ op[h] # "remove" /\ flag[h] = "default"
      /\ op[h] = "patch" => own[h] \subseteq Rows
  BY <1>1, Alone DEF AloneInv, IInv, ContextInv
<1>3. Defaults' \subseteq own[h]
  BY <1>1, <1>2 DEF Defaults
<1>4. Rows' = Rows
  BY <1>1 DEF Rows, Defaults
<1>5. pc'[h] = "write" /\ "write" \in PCs
  BY <1>1 DEF Goto, IInv, TypeOK, PCs
<1>6. AloneInv(h)'
  BY <1>1, <1>2, <1>3, <1>4, <1>5 DEF AloneInv
<1> QED
  BY <1>1, <1>5, <1>6, UnmetMoves

\* The statement of the request: the outcome has at most one default key.
LEMMA UnmetWrite ==
    ASSUME IInv, UnmetInv, NEW h \in Handlers, disturbed' = {},
           InsertRow(h) \/ SelectRows(h) \/ DeleteRows(h) \/ UpdateRow(h)
    PROVE  UnmetInv'
<1>1. /\ disturbed = {} /\ pc[h] \in {"select", "write"} /\ db' = db
      /\ Rows' = Rows /\ Defaults' = Defaults
  BY DEF InsertRow, SelectRows, DeleteRows, UpdateRow, Rows, Defaults, history
<1>2. AloneInv(h)
  BY <1>1, Alone
<1>3. CASE (InsertRow(h) \/ DeleteRows(h))
  <2>1. /\ op[h] \in {"create", "remove"} /\ Goto(h, "ensure")
        /\ UNCHANGED <<op, flag>> /\ pc[h] = "write"
        /\ op[h] = "create" => own' = own
        /\ own'[h] \cap Rows = own[h] \cap Rows
    BY <1>3 DEF InsertRow, DeleteRows, request, IInv, TypeOK
  <2>2. pc'[h] = "ensure" /\ "ensure" \in PCs
    BY <2>1 DEF Goto, IInv, TypeOK, PCs
  <2>3. op[h] = "create" => flag[h] \in {"plain", "default"} /\ own[h] \cap Rows = {}
                              /\ \E k \in KeyIds : own[h] = {k}
    BY <1>1 DEF IInv, ContextInv, FreshInv
  <2>4. op[h] = "remove" => flag[h] = "none"
    BY DEF IInv, ContextInv
  <2>5. AtMostOne(Outcome(h)')
    BY <1>1, <1>2, <2>1, <2>3, <2>4 DEF AloneInv, Outcome, AtMostOne
  <2>6. AloneInv(h)'
    BY <1>1, <1>2, <2>1, <2>2, <2>3, <2>4, <2>5 DEF AloneInv, AtMostOne
  <2> QED
    BY <1>1, <2>1, <2>2, <2>6, UnmetMoves
<1>4. CASE UpdateRow(h)
  <2>1. PICK k \in own[h] :
          \/ db[k] = "none"
          \/ /\ db[k] # "none"
             /\ flag' = [flag EXCEPT ![h] = IF @ = "keep" THEN db[k] ELSE @]
             /\ Goto(h, "ensure")
             /\ UNCHANGED <<op, own>>
    BY <1>4 DEF UpdateRow
  <2>2. /\ pc[h] = "write" /\ op[h] = "patch" /\ own[h] = {k}
        /\ k \in Rows /\ db[k] # "none" /\ k \in KeyIds
    BY <1>1, <1>2, <1>4, <2>1 DEF UpdateRow, IInv, ContextInv, AloneInv, Rows
  <2>3. /\ flag'[h] = IF flag[h] = "keep" THEN db[k] ELSE flag[h]
        /\ Goto(h, "ensure") /\ UNCHANGED <<op, own>>
        /\ pc'[h] = "ensure" /\ "ensure" \in PCs
    BY <2>1, <2>2 DEF Goto, IInv, TypeOK, PCs
  <2>4. flag[h] \in {"plain", "default", "keep"} /\ db[k] \in {"plain", "default"}
    BY <2>2 DEF IInv, TypeOK, ContextInv, Flags
  <2>5. /\ flag[h] = "default" => Defaults \subseteq {k}
        /\ flag[h] # "default" => AtMostOne(Defaults) /\ Defaults # {}
        /\ flag[h] = "plain" => Rows # {k}
        /\ k \in Defaults <=> db[k] = "default"
        /\ Defaults \subseteq Rows
    BY <1>1, <1>2, <2>2 DEF AloneInv, Defaults, Rows
  <2>6. AtMostOne(Outcome(h)')
    BY <1>1, <2>2, <2>3, <2>4, <2>5 DEF Outcome, AtMostOne
  <2>7. flag'[h] = "default" \/ ~ Rows \subseteq {k}
    BY <2>2, <2>3, <2>4, <2>5 DEF AtMostOne
  <2>8. AloneInv(h)'
    BY <1>1, <2>2, <2>3, <2>6, <2>7 DEF AloneInv, AtMostOne
  <2> QED
    BY <1>1, <2>3, <2>8, UnmetMoves
<1>5. CASE SelectRows(h)
  <2>1. /\ pc[h] = "select" /\ Goto(h, "write") /\ UNCHANGED <<op, flag>>
        /\ op[h] = "remove" /\ flag[h] = "none"
        /\ pc'[h] = "write" /\ "write" \in PCs
    BY <1>5 DEF SelectRows, IInv, ContextInv, TypeOK, PCs, Goto
  <2>2. AloneInv(h)'
    BY <1>1, <1>2, <2>1 DEF AloneInv, AtMostOne
  <2> QED
    BY <1>1, <2>1, <2>2, UnmetMoves
<1> QED
  BY <1>3, <1>4, <1>5

\* From the after-hooks on the outcome is settled.
LEMMA UnmetEnsured ==
    ASSUME IInv, UnmetInv, disturbed = {}, NEW h \in Handlers, AfterEnsure(h),
           pc[h] # "idle", UNCHANGED <<op, own, flag>>,
           AtMostOne(Outcome(h)'),
           (Outcome(h) # {} \/ (op[h] = "remove" /\ Rows \subseteq own[h]))'
    PROVE  UnmetInv'
<1>1. PICK l \in {"register", "unregister", "commit"} : Goto(h, l)
  BY AfterEnsureGoto
<1>2. pc'[h] = l /\ l \in PCs
  BY <1>1 DEF Goto, IInv, TypeOK, PCs
<1>3. AloneInv(h)'
  BY <1>2 DEF AloneInv, AtMostOne
<1> QED
  BY <1>1, <1>2, <1>3, UnmetMoves

LEMMA UnmetCount ==
    ASSUME IInv, UnmetInv, NEW h \in Handlers, CountDefaultRecords(h), disturbed' = {}
    PROVE  UnmetInv'
<1>1. /\ disturbed = {} /\ pc[h] = "ensure" /\ UNCHANGED <<db, op, own, flag>>
      /\ IF Defaults \ own[h] # {} \/ flag[h] = "default" THEN AfterEnsure(h)
                                                          ELSE Goto(h, "choose")
  BY DEF CountDefaultRecords, request, history
<1>2. AloneInv(h) /\ Outcome(h)' = Outcome(h) /\ Rows' = Rows
  BY <1>1, Alone DEF Outcome, Defaults, Rows
<1>3. flag[h] = "default" => own[h] # {}
  BY <1>1 DEF IInv, ContextInv, TypeOK, Ops
<1>4. CASE Defaults \ own[h] # {} \/ flag[h] = "default"
  <2>1. Outcome(h) # {} /\ AtMostOne(Outcome(h))
    BY <1>1, <1>2, <1>3, <1>4 DEF Outcome, AloneInv
  <2> QED
    BY <1>1, <1>2, <1>4, <2>1, UnmetEnsured
<1>5. CASE ~ (Defaults \ own[h] # {} \/ flag[h] = "default")
  <2>1. Goto(h, "choose") /\ pc'[h] = "choose" /\ "choose" \in PCs
    BY <1>1, <1>5 DEF Goto, IInv, TypeOK, PCs
  <2>2. Outcome(h) = {}
    BY <1>5 DEF Outcome
  <2>3. AloneInv(h)'
    BY <1>1, <1>2, <2>1, <2>2 DEF AloneInv, AtMostOne
  <2> QED
    BY <1>1, <2>1, <2>3, UnmetMoves
<1> QED
  BY <1>4, <1>5

LEMMA UnmetChoose ==
    ASSUME IInv, UnmetInv, NEW h \in Handlers, ChooseDefaultRecord(h), disturbed' = {}
    PROVE  UnmetInv'
<1>1. /\ disturbed = {} /\ pc[h] = "choose" /\ UNCHANGED <<db, op, own, flag>>
  BY DEF ChooseDefaultRecord, history
<1>2. AloneInv(h) /\ Outcome(h)' = Outcome(h) /\ Rows' = Rows
  BY <1>1, Alone DEF Outcome, Defaults, Rows
<1>3. Outcome(h) = {}
  BY <1>1, <1>2 DEF AloneInv
<1>4. flag[h] = "default" => own[h] # {}
  BY <1>1 DEF IInv, ContextInv, TypeOK, Ops
<1>5. CASE Rows \subseteq own[h] /\ AfterEnsure(h)
  <2>1. op[h] = "remove"
    BY <1>1, <1>2, <1>3, <1>4, <1>5 DEF AloneInv, Outcome
  <2> QED
    BY <1>1, <1>2, <1>3, <1>5, <2>1, UnmetEnsured DEF AtMostOne
<1>6. CASE /\ \E k \in Rows \ own[h] : target' = [target EXCEPT ![h] = {k}]
           /\ Goto(h, "promote")
  <2>1. /\ target'[h] \subseteq Rows \ own[h]
        /\ pc'[h] = "promote" /\ "promote" \in PCs
    BY <1>6 DEF Goto, IInv, TypeOK, PCs
  <2>2. AloneInv(h)'
    BY <1>1, <1>2, <1>3, <2>1 DEF AloneInv, AtMostOne
  <2> QED
    BY <1>1, <1>6, <2>1, <2>2, UnmetMoves
<1> QED
  BY <1>5, <1>6 DEF ChooseDefaultRecord

LEMMA UnmetPromote ==
    ASSUME IInv, UnmetInv, NEW h \in Handlers, EnsureDefaultRecord(h), disturbed' = {}
    PROVE  UnmetInv'
<1>1. /\ disturbed = {} /\ pc[h] = "promote"
  BY DEF EnsureDefaultRecord, history
<1>2. AloneInv(h)
  BY <1>1, Alone
<1>3. PICK k \in target[h] :
         \/ db[k] = "none"
         \/ /\ db' = [db EXCEPT ![k] = "default"]
            /\ AfterEnsure(h)
            /\ UNCHANGED <<op, own, flag>>
  BY DEF EnsureDefaultRecord
<1>4. k \in Rows \ own[h] /\ k \in KeyIds /\ db[k] # "none"
  BY <1>1, <1>2, <1>3 DEF AloneInv, Rows
<1>5. /\ db' = [db EXCEPT ![k] = "default"] /\ AfterEnsure(h)
      /\ UNCHANGED <<op, own, flag>>
  BY <1>3, <1>4
<1>6. Defaults' = Defaults \cup {k}
  BY <1>4, <1>5 DEF Defaults, IInv, TypeOK
<1>7. Outcome(h) = {}
  BY <1>1, <1>2 DEF AloneInv
<1>8. Outcome(h)' = {k}
  BY <1>4, <1>5, <1>6, <1>7 DEF Outcome
<1>9. (Outcome(h) # {})' /\ AtMostOne(Outcome(h)')
  BY <1>8 DEF AtMostOne
<1> QED
  BY <1>1, <1>5, <1>9, UnmetEnsured

LEMMA UnmetVault ==
    ASSUME IInv, UnmetInv, NEW h \in Handlers, disturbed' = {},
           RegisterPublicKey(h) \/ UnregisterPublicKey(h)
    PROVE  UnmetInv'
<1>1. /\ disturbed = {} /\ pc[h] \in {"register", "unregister"} /\ Goto(h, "commit")
      /\ UNCHANGED <<db, op, own, flag>>
  BY DEF RegisterPublicKey, UnregisterPublicKey, request, history
<1>2. AloneInv(h) /\ Outcome(h)' = Outcome(h) /\ Rows' = Rows
  BY <1>1, Alone DEF Outcome, Defaults, Rows
<1>3. pc'[h] = "commit" /\ "commit" \in PCs
  BY <1>1 DEF Goto, IInv, TypeOK, PCs
<1>4. AloneInv(h)'
  BY <1>1, <1>2, <1>3 DEF AloneInv, AtMostOne
<1> QED
  BY <1>1, <1>3, <1>4, UnmetMoves

\* The commit makes the outcome the default keys.
LEMMA UnmetCommit ==
    ASSUME IInv, UnmetInv, NEW h \in Handlers, Commit(h), disturbed' = {}
    PROVE  UnmetInv'
<1>1. /\ disturbed = {} /\ pc[h] = "commit" /\ Goto(h, "idle") /\ "idle" \in PCs
      /\ db' = [k \in KeyIds |-> IF k \in own[h] THEN flag[h] ELSE db[k]]
  BY DEF Commit, Answer, PCs
<1>2. AloneInv(h)
  BY <1>1, Alone
<1>3. own[h] \subseteq KeyIds
  BY DEF IInv, TypeOK
<1>4. Defaults' = Outcome(h)
  BY <1>1, <1>3 DEF Defaults, Outcome
<1>5. Rows' = IF op[h] = "remove" THEN Rows \ own[h] ELSE Rows \cup own[h]
  BY CommitEffect
<1>6. AtMostOne(Outcome(h)) /\ (Outcome(h) # {} \/ (op[h] = "remove" /\ Rows \subseteq own[h]))
  BY <1>1, <1>2 DEF AloneInv
<1>7. (AtMostOne(Defaults) /\ (Rows # {} => Defaults # {}))'
  BY <1>4, <1>5, <1>6 DEF AtMostOne
<1> QED
  BY <1>1, <1>7, UnmetMoves

\* A user who sends one request at a time, none of which fails, has exactly one
\* default key between them, or no key at all.
THEOREM OneDefault == Spec => []OneDefaultUnmet
<1>1. Init => UnmetInv
  BY DEF Init, UnmetInv, AloneInv, AtMostOneDefault, DefaultRegistered, Defaults, Rows
<1>2. IInv /\ UnmetInv /\ [Next]_vars => UnmetInv'
  <2> SUFFICES ASSUME IInv, UnmetInv, [Next]_vars, disturbed' = {} PROVE UnmetInv'
    BY DEF UnmetInv
  <2>1. ASSUME NEW h \in Handlers, Step(h) PROVE UnmetInv'
    BY <2>1, UnmetClear, UnmetWrite, UnmetCount, UnmetChoose, UnmetPromote,
       UnmetVault, UnmetCommit DEF Step
  <2>2. ASSUME NEW h \in Handlers, Fail(h) PROVE UnmetInv'
    BY <2>2 DEF Fail
  <2>3. CASE UNCHANGED vars
    <3>1. UNCHANGED <<pc, op, own, flag, found, target, disturbed>> /\ Rows' = Rows /\ Defaults' = Defaults
      BY <2>3 DEF vars, Rows, Defaults
    <3>2. \A h \in Handlers : Outcome(h)' = Outcome(h)
      BY <3>1 DEF Outcome
    <3>3. \A h \in Handlers : AloneInv(h) => AloneInv(h)'
      BY <3>1, <3>2 DEF AloneInv, AtMostOne
    <3> QED
      BY <3>1, <3>3 DEF UnmetInv, AtMostOneDefault, DefaultRegistered, Settled
  <2> QED
    BY <2>1, <2>2, <2>3, UnmetRequest DEF Next
<1>3. UnmetInv => OneDefaultUnmet
  BY DEF UnmetInv, OneDefaultUnmet
<1> QED
  BY <1>1, <1>2, <1>3, Invariance, PTL DEF Spec
=============================================================================
