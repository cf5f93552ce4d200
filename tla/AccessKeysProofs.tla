--------------------------- MODULE AccessKeysProofs -------------------------
(***************************************************************************)
(* Theorems about AccessKeys, for any number of requests, users, streams   *)
(* and keys.                                                               *)
(***************************************************************************)
EXTENDS AccessKeys, TLAPS

\* Nothing of key k is in Vault.
Void(k) == policy[k] = NoRow /\ k \notin role /\ k \notin info

\* The creation of key k is over; without a row, nothing of it is in Vault.
Settled(k) == /\ k \in used
              /\ \A p \in Processes : op[p] = "create" => key[p] # k
              /\ db[k] = NoRow => Void(k)

\* What has been done for the key of p so far.
Creation(p) ==
    /\ pc[p] \in {"policy", "role", "secret", "info", "commit"}
    /\ row[p] \in Row /\ key[p] \in used /\ db[key[p]] = NoRow
    /\ pc[p] = "policy" => Void(key[p])
    /\ pc[p] # "policy" => policy[key[p]] = row[p]
    /\ pc[p] \in {"secret", "info", "commit"} => key[p] \in role
    /\ pc[p] \in {"info", "commit"} => key[p] \in secret
    /\ pc[p] = "commit" => key[p] \in info
Removal(p) ==
    /\ pc[p] \in {"delete", "uninfo", "unrole", "unpolicy", "commit"}
    /\ key[p] \in KeyIds /\ Settled(key[p])
    /\ pc[p] # "delete" => db[key[p]] # NoRow
    /\ pc[p] \in {"unrole", "unpolicy", "commit"} => key[p] \notin info
    /\ pc[p] \in {"unpolicy", "commit"} => key[p] \notin role
    /\ pc[p] = "commit" => policy[key[p]] = NoRow

Context(p) ==
    /\ op[p] = "none" <=> pc[p] = "idle"
    /\ op[p] = "create" => Creation(p)
    /\ op[p] = "remove" => Removal(p)
    /\ op[p] \in {"login", "sweep"} => pc[p] \in {"ask", "login"}
    /\ pc[p] = "login" => key[p] \in found[p]
    /\ \A k \in found[p] : Settled(k)

\* What the sequence and the locks of rows keep apart.
Apart(p, q) ==
    /\ op[p] = "create" /\ op[q] = "create" => key[p] # key[q]
    /\ op[p] = "remove" /\ op[q] = "remove" /\ pc[p] # "delete" /\ pc[q] # "delete"
         => key[p] # key[q]

Usable(k) ==
    k \in Rows \ damaged /\ (\A p \in Deleting(k) : pc[p] = "uninfo") =>
        k \in info /\ k \in secret /\ policy[k] = db[k]
Left(k) == k \notin Rows \cup damaged /\ ~ Busy(k) => Void(k)

HandlerInv == \A p \in Processes : Context(p)
PairInv    == \A p, q \in Processes : p # q => Apart(p, q)
KeyInv     == \A k \in KeyIds :
                /\ k \notin used => db[k] = NoRow /\ Void(k)
                /\ k \in Rows \cup queue \cup sessions => Settled(k)
                /\ Usable(k) /\ Left(k)

IInv == TypeOK /\ HandlerInv /\ PairInv /\ KeyInv

LEMMA InitInv == Init => IInv
<1> SUFFICES ASSUME Init PROVE IInv
  OBVIOUS
<1>1. TypeOK
  BY ConstantsAssumption DEF Init, TypeOK, PCs, Ops
<1>2. HandlerInv /\ PairInv
  BY DEF Init, HandlerInv, PairInv, Context, Apart
<1>3. KeyInv
  BY DEF Init, KeyInv, Usable, Left, Void, Rows
<1> QED
  BY <1>1, <1>2, <1>3 DEF IInv

-----------------------------------------------------------------------------
\* What an answer forgets.
LEMMA Answered ==
    ASSUME TypeOK, NEW p \in Processes, Answer(p)
    PROVE  /\ pc' \in [Processes -> PCs] /\ op' \in [Processes -> Ops]
           /\ key' \in [Processes -> KeyIds \cup {NoKey}]
           /\ row' \in [Processes -> Row \cup {NoRow}]
           /\ found' \in [Processes -> SUBSET KeyIds]
           /\ pc'[p] = "idle" /\ op'[p] = "none" /\ found'[p] = {}
           /\ \A q \in Processes \ {p} :
                /\ pc'[q] = pc[q] /\ op'[q] = op[q] /\ key'[q] = key[q]
                /\ row'[q] = row[q] /\ found'[q] = found[q]
BY DEF TypeOK, Answer, Goto, PCs, Ops

\* A step of a request that creates or removes key k.
LEMMA KeyStep ==
    ASSUME IInv, TypeOK', NEW h \in Processes, NEW k \in KeyIds,
           op[h] \in {"create", "remove"}, key[h] = k,
           UNCHANGED <<used, sessions, queue>>,
           \A q \in Processes \ {h} : /\ pc'[q] = pc[q] /\ op'[q] = op[q] /\ key'[q] = key[q]
                                      /\ row'[q] = row[q] /\ found'[q] = found[q],
           \A j \in KeyIds \ {k} :
              /\ db'[j] = db[j] /\ policy'[j] = policy[j]
              /\ (j \in role' <=> j \in role) /\ (j \in secret' <=> j \in secret)
              /\ (j \in info' <=> j \in info) /\ (j \in damaged' <=> j \in damaged),
           op'[h] = "none" \/ (op'[h] = op[h] /\ key'[h] = k),
           Context(h)',
           op[h] = "remove" \/ db'[k] # NoRow => Settled(k)',
           pc[h] = "delete" => db' = db /\ policy' = policy /\ role' = role /\ info' = info,
           \A q \in Processes \ {h} : op'[h] = "remove" /\ op[q] = "remove" /\ pc'[h] # "delete"
                                        /\ pc[q] # "delete" => key[q] # k,
           Usable(k)', Left(k)'
    PROVE  IInv'
<1>1. TypeOK /\ HandlerInv /\ PairInv /\ KeyInv
  BY DEF IInv
<1>2. ASSUME NEW j \in KeyIds, Settled(j) PROVE Settled(j)'
  <2>1. CASE j = k
    BY <1>2, <2>1 DEF Settled
  <2>2. CASE j # k
    <3>1. \A p \in Processes : op'[p] = "create" => key'[p] # j
      BY <1>2, <2>2 DEF Settled
    <3> QED
      BY <1>2, <2>2, <3>1 DEF Settled, Void
  <2> QED
    BY <2>1, <2>2
<1>3. ASSUME NEW q \in Processes \ {h} PROVE Context(q)'
  <2> PICK j : j = key[q]
    OBVIOUS
  <2>1. /\ Context(q) /\ key'[q] = j /\ pc'[q] = pc[q] /\ op'[q] = op[q] /\ row'[q] = row[q]
        /\ found'[q] = found[q] /\ found[q] \subseteq KeyIds
    BY <1>1 DEF HandlerInv, TypeOK
  <2>2. \A i \in found'[q] : Settled(i)'
    BY <1>2, <2>1 DEF Context
  <2>3. ASSUME op[q] = "create" PROVE Creation(q)'
    <3>1. Creation(q) /\ j \in KeyIds
      BY <1>1, <2>1, <2>3 DEF Context, Creation, TypeOK
    <3>2. j # k
      <4>1. CASE op[h] = "create"
        BY <1>1, <2>3, <4>1 DEF PairInv, Apart
      <4>2. CASE op[h] = "remove"
        BY <1>1, <2>3, <4>2 DEF HandlerInv, Context, Removal, Settled
      <4> QED
        BY <4>1, <4>2
    <3> QED
      BY <2>1, <3>1, <3>2 DEF Creation, Void
  <2>4. ASSUME op[q] = "remove" PROVE Removal(q)'
    <3>1. Removal(q) /\ j \in KeyIds /\ Settled(j)
      BY <2>1, <2>4 DEF Context, Removal
    <3>2. Settled(j)'
      BY <1>2, <3>1
    <3>3. CASE j # k
      BY <2>1, <3>1, <3>2, <3>3 DEF Removal
    <3>4. CASE j = k
      <4>1. op[h] = "remove"
        BY <3>1, <3>4 DEF Settled
      <4>2. pc[h] = "delete" \/ pc[q] = "delete"
        BY <1>1, <2>4, <3>4, <4>1 DEF PairInv, Apart
      <4>3. CASE pc[h] = "delete"
        BY <2>1, <3>1, <3>2, <4>3 DEF Removal
      <4>4. CASE pc[q] = "delete"
        BY <2>1, <3>1, <3>2, <4>4 DEF Removal
      <4> QED
        BY <4>2, <4>3, <4>4
    <3> QED
      BY <3>3, <3>4
  <2> QED
    BY <2>1, <2>2, <2>3, <2>4 DEF Context
<1>4. HandlerInv'
  BY <1>3 DEF HandlerInv, Processes
<1>5. PairInv'
  <2> SUFFICES ASSUME NEW p \in Processes, NEW q \in Processes, p # q PROVE Apart(p, q)'
    BY DEF PairInv, Processes
  <2>1. Apart(p, q)
    BY <1>1 DEF PairInv
  <2>2. CASE p # h /\ q # h
    BY <2>1, <2>2 DEF Apart
  <2>3. CASE p = h
    BY <2>1, <2>3 DEF Apart
  <2>4. CASE q = h
    BY <2>1, <2>4 DEF Apart
  <2> QED
    BY <2>2, <2>3, <2>4
<1>6. ASSUME NEW j \in KeyIds
      PROVE  /\ j \notin used' => db'[j] = NoRow /\ Void(j)'
             /\ j \in (Rows \cup queue \cup sessions)' => Settled(j)'
             /\ Usable(j)' /\ Left(j)'
  <2>1. /\ j \notin used => db[j] = NoRow /\ Void(j)
        /\ j \in Rows \cup queue \cup sessions => Settled(j)
        /\ Usable(j) /\ Left(j)
    BY <1>1 DEF KeyInv
  <2>2. k \in used /\ (k \in queue \cup sessions => op[h] = "remove")
    BY <1>1 DEF HandlerInv, Context, Creation, Removal, Settled, KeyInv
  <2>3. CASE j = k
    <3>1. j \in (Rows \cup queue \cup sessions)' => Settled(j)'
      BY <2>2, <2>3 DEF Rows
    <3> QED
      BY <2>2, <2>3, <3>1
  <2>4. CASE j # k
    <3>1. /\ j \in Rows' <=> j \in Rows
          /\ Void(j)' <=> Void(j)
      BY <2>4 DEF Rows, Void
    <3>2. \A p \in Processes : op'[p] \in {"create", "remove"} /\ key'[p] = j
                               <=> op[p] \in {"create", "remove"} /\ key[p] = j
      BY <2>4
    <3>3. Busy(j)' <=> Busy(j)
      BY <3>2 DEF Busy, Processes
    <3>4. /\ \A p \in Processes : p \in Deleting(j)' <=> p \in Deleting(j)
          /\ \A p \in Deleting(j) : pc'[p] = pc[p]
      BY <2>4 DEF Deleting, Processes
    <3>5. (\A p \in Deleting(j)' : pc'[p] = "uninfo") => \A p \in Deleting(j) : pc[p] = "uninfo"
      BY <3>4 DEF Deleting, Processes
    <3>6. Usable(j)'
      BY <2>1, <2>4, <3>1, <3>5 DEF Usable, Rows
    <3>7. Left(j)'
      BY <2>1, <2>4, <3>1, <3>3 DEF Left
    <3> QED
      BY <1>2, <2>1, <2>4, <3>1, <3>6, <3>7
  <2> QED
    BY <2>3, <2>4
<1>7. KeyInv'
  BY <1>6 DEF KeyInv
<1> QED
  BY <1>4, <1>5, <1>7 DEF IInv

\* What is settled stays so when a request begins, or only asks.
LEMMA SettledStays ==
    ASSUME TypeOK, NEW h \in Processes, NEW k, Settled(k),
           UNCHANGED <<db, policy, role, info>>, used \subseteq used',
           \A q \in Processes \ {h} : op'[q] = op[q] /\ key'[q] = key[q],
           op'[h] = "create" => key'[h] \notin used
    PROVE  Settled(k)'
<1>1. \A p \in Processes : op'[p] = "create" => key'[p] # k
  BY DEF Settled
<1> QED
  BY <1>1 DEF Settled, Void, Processes

LEMMA QueryStep ==
    ASSUME IInv, TypeOK', NEW h \in Processes, op[h] \notin {"create", "remove"},
           UNCHANGED <<db, policy, role, secret, info, damaged>>, used \subseteq used',
           \A q \in Processes \ {h} : /\ pc'[q] = pc[q] /\ op'[q] = op[q] /\ key'[q] = key[q]
                                      /\ row'[q] = row[q] /\ found'[q] = found[q],
           op'[h] = "create" => key'[h] \notin used,
           op'[h] = "remove" => pc'[h] = "delete",
           Context(h)',
           \A k \in queue' \cup sessions' : Settled(k)
    PROVE  IInv'
<1>1. TypeOK /\ HandlerInv /\ PairInv /\ KeyInv
  BY DEF IInv
<1>2. ASSUME NEW k, Settled(k) PROVE Settled(k)'
  BY <1>1, <1>2, SettledStays
<1>3. ASSUME NEW q \in Processes \ {h} PROVE Context(q)'
  <2> PICK j : j = key[q]
    OBVIOUS
  <2>1. /\ Context(q) /\ key'[q] = j /\ pc'[q] = pc[q] /\ op'[q] = op[q] /\ row'[q] = row[q]
        /\ found'[q] = found[q]
    BY <1>1 DEF HandlerInv
  <2>2. \A i \in found'[q] : Settled(i)'
    BY <1>2, <2>1 DEF Context
  <2>3. op[q] = "create" => Creation(q)'
    BY <2>1 DEF Context, Creation, Void
  <2>4. op[q] = "remove" => Removal(q)'
    BY <1>2, <2>1 DEF Context, Removal
  <2> QED
    BY <2>1, <2>2, <2>3, <2>4 DEF Context
<1>4. HandlerInv'
  BY <1>3 DEF HandlerInv, Processes
<1>5. PairInv'
  <2> SUFFICES ASSUME NEW p \in Processes, NEW q \in Processes, p # q PROVE Apart(p, q)'
    BY DEF PairInv, Processes
  <2>1. Apart(p, q)
    BY <1>1 DEF PairInv
  <2>2. \A f \in Processes : op[f] = "create" => key[f] \in used
    BY <1>1 DEF HandlerInv, Context, Creation
  <2>3. CASE p # h /\ q # h
    BY <2>1, <2>3 DEF Apart
  <2>4. CASE p = h
    BY <2>2, <2>4 DEF Apart
  <2>5. CASE q = h
    BY <2>2, <2>5 DEF Apart
  <2> QED
    BY <2>3, <2>4, <2>5
<1>6. ASSUME NEW k \in KeyIds
      PROVE  /\ k \notin used' => db'[k] = NoRow /\ Void(k)'
             /\ k \in (Rows \cup queue \cup sessions)' => Settled(k)'
             /\ Usable(k)' /\ Left(k)'
  <2>1. /\ k \notin used => db[k] = NoRow /\ Void(k)
        /\ k \in Rows \cup queue \cup sessions => Settled(k)
        /\ Usable(k) /\ Left(k)
    BY <1>1 DEF KeyInv
  <2>2. k \in (Rows \cup queue \cup sessions)' => Settled(k)'
    BY <1>2, <2>1 DEF Rows
  <2>3. Busy(k) => Busy(k)'
    BY DEF Busy, Processes
  <2>4. /\ \A p \in Deleting(k) : p \in Deleting(k)' /\ pc'[p] = pc[p]
    BY DEF Deleting, Processes
  <2>5. Usable(k)'
    BY <2>1, <2>4 DEF Usable, Rows
  <2>6. Left(k)'
    BY <2>1, <2>3 DEF Left, Rows, Void
  <2> QED
    BY <2>1, <2>2, <2>5, <2>6 DEF Void
<1>7. KeyInv'
  BY <1>6 DEF KeyInv
<1> QED
  BY <1>4, <1>5, <1>7 DEF IInv

-----------------------------------------------------------------------------
LEMMA Moved ==
    ASSUME TypeOK, NEW p \in Processes, NEW l \in PCs, Goto(p, l)
    PROVE  /\ pc' \in [Processes -> PCs] /\ pc'[p] = l
           /\ \A q \in Processes \ {p} : pc'[q] = pc[q]
BY DEF TypeOK, Goto

\* An idle process is in no request.
LEMMA Free ==
    ASSUME HandlerInv, NEW p \in Processes, pc[p] = "idle"
    PROVE  op[p] \notin {"create", "remove"}
BY DEF HandlerInv, Context, Creation, Removal

LEMMA CreateKeyInv ==
    ASSUME IInv, NEW h \in Handlers, CreateKey(h) PROVE IInv'
<1>1. TypeOK /\ HandlerInv /\ KeyInv /\ h \in Processes
  BY DEF IInv, Processes
<1>2. PICK u \in Users, k \in KeyIds \ used : \E scope \in Scopes(u) :
        /\ Start(h, "create", k, [owner |-> u, scope |-> scope], {}, "policy")
        /\ used' = used \cup {k}
        /\ UNCHANGED <<db, due, vault, queue, damaged>>
  BY DEF CreateKey
<1>3. PICK r \in Row : Start(h, "create", k, r, {}, "policy")
  <2>1. \A scope \in Scopes(u) : [owner |-> u, scope |-> scope] \in Row
    BY DEF Row, Scopes
  <2> QED
    BY <1>2, <2>1
<1>4. /\ UNCHANGED <<db, policy, role, secret, info, damaged, due, sessions, queue>>
      /\ used' = used \cup {k}
  BY <1>2 DEF vault
<1>5. "create" \in Ops /\ "policy" \in PCs /\ k \in KeyIds \cup {NoKey} /\ r \in Row \cup {NoRow}
      /\ {} \in SUBSET KeyIds
  BY DEF Ops, PCs
<1>6. /\ pc[h] = "idle"
      /\ pc' \in [Processes -> PCs] /\ op' \in [Processes -> Ops]
      /\ key' \in [Processes -> KeyIds \cup {NoKey}]
      /\ row' \in [Processes -> Row \cup {NoRow}]
      /\ found' \in [Processes -> SUBSET KeyIds]
      /\ pc'[h] = "policy" /\ op'[h] = "create" /\ key'[h] = k /\ row'[h] = r /\ found'[h] = {}
      /\ \A q \in Processes \ {h} :
           /\ pc'[q] = pc[q] /\ op'[q] = op[q] /\ key'[q] = key[q]
           /\ row'[q] = row[q] /\ found'[q] = found[q]
  BY <1>1, <1>3, <1>5 DEF TypeOK, Start, Goto
<1>7. TypeOK'
  BY <1>1, <1>4, <1>6 DEF TypeOK
<1>8. db[k] = NoRow /\ Void(k)
  BY <1>1 DEF KeyInv
<1>9. Context(h)'
  BY <1>4, <1>6, <1>8 DEF Context, Creation, Void
<1>10. \A j \in queue' \cup sessions' : Settled(j)
  BY <1>1, <1>4 DEF KeyInv, TypeOK
<1>11. op[h] \notin {"create", "remove"}
  BY <1>1, <1>6, Free
<1>12. used \subseteq used' /\ key'[h] \notin used /\ op'[h] # "remove"
  BY <1>4, <1>6
<1> QED
  BY <1>1, <1>4, <1>6, <1>7, <1>9, <1>10, <1>11, <1>12, QueryStep

\* A removal begins, for its owner or for the job.
LEMMA RemoveKeyInv ==
    ASSUME IInv, NEW h \in Handlers, RemoveKey(h) \/ RemoveExpired(h) PROVE IInv'
<1>1. TypeOK /\ HandlerInv /\ KeyInv /\ h \in Processes
  BY DEF IInv, Processes
<1>2. PICK k \in KeyIds :
        /\ Start(h, "remove", k, db[k], {}, "delete")
        /\ UNCHANGED <<rows, vault, damaged>>
        /\ queue' \subseteq queue
        /\ Settled(k)
  <2>1. CASE RemoveKey(h)
    BY <1>1, <2>1 DEF RemoveKey, Rows, KeyInv
  <2>2. CASE RemoveExpired(h)
    BY <1>1, <2>2 DEF RemoveExpired, KeyInv, TypeOK
  <2> QED
    BY <2>1, <2>2
<1> PICK r : r = db[k]
  OBVIOUS
<1>3. /\ "remove" \in Ops /\ "delete" \in PCs /\ k \in KeyIds \cup {NoKey} /\ r \in Row \cup {NoRow}
      /\ {} \in SUBSET KeyIds /\ Start(h, "remove", k, r, {}, "delete")
  BY <1>1, <1>2 DEF Ops, PCs, TypeOK
<1>4. UNCHANGED <<db, due, used, policy, role, secret, info, damaged, sessions>>
  BY <1>2 DEF vault, rows
<1>5. /\ pc[h] = "idle"
      /\ pc' \in [Processes -> PCs] /\ op' \in [Processes -> Ops]
      /\ key' \in [Processes -> KeyIds \cup {NoKey}]
      /\ row' \in [Processes -> Row \cup {NoRow}]
      /\ found' \in [Processes -> SUBSET KeyIds]
      /\ pc'[h] = "delete" /\ op'[h] = "remove" /\ key'[h] = k /\ found'[h] = {}
      /\ \A q \in Processes \ {h} :
           /\ pc'[q] = pc[q] /\ op'[q] = op[q] /\ key'[q] = key[q]
           /\ row'[q] = row[q] /\ found'[q] = found[q]
  BY <1>1, <1>3 DEF TypeOK, Start, Goto
<1>6. TypeOK'
  BY <1>1, <1>2, <1>4, <1>5 DEF TypeOK
<1>7. Settled(k)'
  BY <1>1, <1>2, <1>4, <1>5, SettledStays
<1>8. Context(h)'
  BY <1>5, <1>7 DEF Context, Removal
<1>9. \A j \in queue' \cup sessions' : Settled(j)
  BY <1>1, <1>2, <1>4 DEF KeyInv, TypeOK
<1>10. op[h] \notin {"create", "remove"}
  BY <1>1, <1>5, Free
<1>11. used \subseteq used' /\ op'[h] # "create"
  BY <1>4, <1>5
<1> QED
  BY <1>1, <1>4, <1>5, <1>6, <1>8, <1>9, <1>10, <1>11, QueryStep

\* A find: a log-in, or a run of the job.
LEMMA FindInv ==
    ASSUME IInv, NEW h \in Processes, NEW o \in {"login", "sweep"},
           NEW k \in KeyIds \cup {NoKey}, NEW ks, ks \subseteq Rows,
           Start(h, o, k, NoRow, ks, "ask"),
           UNCHANGED <<rows, vault, queue, damaged>>
    PROVE  IInv'
<1>1. TypeOK /\ HandlerInv /\ KeyInv
  BY DEF IInv
<1>2. o \in Ops /\ "ask" \in PCs /\ NoRow \in Row \cup {NoRow} /\ ks \in SUBSET KeyIds
  BY DEF Ops, PCs, Rows
<1>3. UNCHANGED <<db, due, used, policy, role, secret, info, damaged, sessions, queue>>
  BY DEF vault, rows
<1>4. /\ pc[h] = "idle"
      /\ pc' \in [Processes -> PCs] /\ op' \in [Processes -> Ops]
      /\ key' \in [Processes -> KeyIds \cup {NoKey}]
      /\ row' \in [Processes -> Row \cup {NoRow}]
      /\ found' \in [Processes -> SUBSET KeyIds]
      /\ pc'[h] = "ask" /\ op'[h] = o /\ key'[h] = k /\ found'[h] = ks
      /\ \A q \in Processes \ {h} :
           /\ pc'[q] = pc[q] /\ op'[q] = op[q] /\ key'[q] = key[q]
           /\ row'[q] = row[q] /\ found'[q] = found[q]
  BY <1>1, <1>2 DEF TypeOK, Start, Goto
<1>5. TypeOK'
  BY <1>1, <1>3, <1>4 DEF TypeOK
<1>6. ASSUME NEW j \in ks PROVE Settled(j)'
  <2>1. Settled(j)
    BY <1>1, <1>6 DEF KeyInv, Rows
  <2> QED
    BY <1>1, <1>3, <1>4, <2>1, SettledStays
<1>7. Context(h)'
  BY <1>4, <1>6 DEF Context
<1>8. \A j \in queue' \cup sessions' : Settled(j)
  BY <1>1, <1>3 DEF KeyInv, TypeOK
<1>9. op[h] \notin {"create", "remove"}
  BY <1>1, <1>4, Free
<1>10. used \subseteq used' /\ op'[h] # "create" /\ op'[h] # "remove"
  BY <1>3, <1>4
<1> QED
  BY <1>3, <1>4, <1>5, <1>7, <1>8, <1>9, <1>10, QueryStep

-----------------------------------------------------------------------------
\* An answer that leaves database and Vault as they are.
LEMMA ForgetInv ==
    ASSUME IInv, TypeOK', NEW h \in Processes, Answer(h), op[h] \notin {"create", "remove"},
           UNCHANGED <<db, used, policy, role, secret, info, damaged>>,
           \A k \in queue' \cup sessions' : Settled(k)
    PROVE  IInv'
<1>1. TypeOK
  BY DEF IInv
<1>2. /\ pc'[h] = "idle" /\ op'[h] = "none" /\ found'[h] = {}
      /\ \A q \in Processes \ {h} :
           /\ pc'[q] = pc[q] /\ op'[q] = op[q] /\ key'[q] = key[q]
           /\ row'[q] = row[q] /\ found'[q] = found[q]
  BY <1>1, Answered
<1>3. Context(h)'
  BY <1>2 DEF Context
<1>4. used \subseteq used' /\ op'[h] # "create" /\ op'[h] # "remove"
  BY <1>2
<1> QED
  BY <1>2, <1>3, <1>4, QueryStep

LEMMA PopulateInv ==
    ASSUME IInv, NEW p \in Processes, PopulateVaultInfo(p) PROVE IInv'
<1>1. /\ TypeOK /\ HandlerInv /\ KeyInv /\ pc[p] = "ask" /\ Context(p)
      /\ UNCHANGED <<db, due, used, policy, role, secret, info, sessions, damaged>>
  BY DEF IInv, PopulateVaultInfo, HandlerInv, rows, vault
<1>2. op[p] \notin {"create", "remove"}
  BY <1>1 DEF Context, Creation, Removal
<1>3. \A k \in queue \cup sessions \cup found[p] : Settled(k)
  BY <1>1 DEF KeyInv, TypeOK, Context
<1>4. CASE Answer(p)
  <2>1. queue' \subseteq queue \cup found[p]
    BY <1>1 DEF PopulateVaultInfo
  <2>2. TypeOK'
    BY <1>1, <1>4, <2>1, Answered DEF TypeOK
  <2> QED
    BY <1>1, <1>2, <1>3, <1>4, <2>1, <2>2, ForgetInv
<1>5. CASE /\ op[p] = "login" /\ key[p] \in found[p] /\ Goto(p, "login")
           /\ UNCHANGED <<request, queue>>
  <2>1. /\ pc' \in [Processes -> PCs] /\ pc'[p] = "login"
        /\ \A q \in Processes \ {p} : pc'[q] = pc[q]
        /\ UNCHANGED <<op, key, row, found, queue>>
    BY <1>1, <1>5, Moved DEF PCs, request
  <2>2. TypeOK'
    BY <1>1, <2>1 DEF TypeOK
  <2>3. \A k \in found[p] : Settled(k)'
    BY <1>1, <1>2, <1>3, <2>1, SettledStays
  <2>4. Context(p)'
    BY <1>5, <2>1, <2>3 DEF Context
  <2>5. used \subseteq used' /\ op'[p] # "create" /\ op'[p] # "remove"
    BY <1>1, <1>5, <2>1
  <2>6. \A k \in queue' \cup sessions' : Settled(k)
    BY <1>1, <1>3, <2>1
  <2> QED
    BY <1>1, <1>2, <2>1, <2>2, <2>4, <2>5, <2>6, QueryStep
<1> QED
  BY <1>4, <1>5 DEF PopulateVaultInfo

LEMMA LoginInv ==
    ASSUME IInv, NEW h \in Processes, Login(h) PROVE IInv'
<1>1. /\ TypeOK /\ KeyInv /\ pc[h] = "login" /\ Context(h) /\ Answer(h)
      /\ UNCHANGED <<db, due, used, policy, role, secret, info, queue, damaged>>
      /\ sessions' \subseteq sessions \cup {key[h]}
  BY DEF IInv, Login, HandlerInv, rows
<1>2. op[h] \notin {"create", "remove"} /\ key[h] \in found[h] /\ found[h] \subseteq KeyIds
  BY <1>1 DEF Context, Creation, Removal, TypeOK
<1>3. \A k \in queue' \cup sessions' : Settled(k)
  BY <1>1, <1>2 DEF KeyInv, TypeOK, Context
<1>4. TypeOK'
  BY <1>1, <1>2, Answered DEF TypeOK
<1> QED
  BY <1>1, <1>2, <1>3, <1>4, ForgetInv

-----------------------------------------------------------------------------
\* What is known of a creation, and that nobody is removing its key.
LEMMA CreationKnown ==
    ASSUME IInv, NEW h \in Processes,
           \/ pc[h] \in {"policy", "role", "secret", "info"}
           \/ op[h] = "create"
    PROVE  /\ op[h] = "create" /\ Creation(h) /\ key[h] \in KeyIds
           /\ key[h] \in used /\ Deleting(key[h]) = {}
<1>1. TypeOK /\ HandlerInv /\ Context(h)
  BY DEF IInv, HandlerInv
<1>2. op[h] = "create" /\ Creation(h)
  BY <1>1 DEF Context, Removal, TypeOK, Ops
<1>3. key[h] \in used /\ key[h] \in KeyIds
  BY <1>1, <1>2 DEF Creation, TypeOK
<1>4. ASSUME NEW p \in Processes, op[p] = "remove" PROVE key[p] # key[h]
  BY <1>1, <1>2, <1>4 DEF HandlerInv, Context, Removal, Settled
<1> QED
  BY <1>2, <1>3, <1>4 DEF Deleting

\* A step of registerAppRole: no row is written.
LEMMA RegisterInv ==
    ASSUME IInv, NEW h \in Processes,
           \/ RegisterVaultPolicy(h) \/ RegisterVaultAppRole(h)
           \/ GenerateAppRoleSecretId(h) \/ StoreAppRoleInfo(h)
    PROVE  IInv'
<1> PICK k : k = key[h]
  OBVIOUS
<1>1. TypeOK /\ pc[h] \in {"policy", "role", "secret", "info"}
  BY DEF IInv, RegisterVaultPolicy, RegisterVaultAppRole, GenerateAppRoleSecretId, StoreAppRoleInfo
<1>2. /\ op[h] = "create" /\ Creation(h) /\ k \in KeyIds /\ k \in used /\ Deleting(k) = {}
      /\ row[h] \in Row /\ db[k] = NoRow
  BY <1>1, CreationKnown DEF Creation
<1>3. PICK l \in {"role", "secret", "info", "commit"} : Goto(h, l)
  BY DEF RegisterVaultPolicy, RegisterVaultAppRole, GenerateAppRoleSecretId, StoreAppRoleInfo
<1>4. /\ pc' \in [Processes -> PCs] /\ pc'[h] = l
      /\ \A q \in Processes \ {h} : pc'[q] = pc[q]
  BY <1>1, <1>3, Moved DEF PCs
<1>5. UNCHANGED <<db, due, used, sessions, op, key, row, found, queue, damaged>>
  BY DEF RegisterVaultPolicy, RegisterVaultAppRole, GenerateAppRoleSecretId, StoreAppRoleInfo,
         rows, request
<1>6. /\ policy' \in [KeyIds -> Row \cup {NoRow}] /\ role' \subseteq KeyIds
      /\ secret' \subseteq role' /\ info' \subseteq KeyIds
      /\ \A j \in KeyIds \ {k} :
           /\ policy'[j] = policy[j] /\ (j \in role' <=> j \in role)
           /\ (j \in secret' <=> j \in secret) /\ (j \in info' <=> j \in info)
      /\ Creation(h)'
  <2>1. CASE RegisterVaultPolicy(h)
    BY <1>2, <1>3, <1>4, <1>5, <1>1, <2>1 DEF RegisterVaultPolicy, TypeOK, Creation, Void, Goto, PCs
  <2>2. CASE RegisterVaultAppRole(h)
    BY <1>2, <1>3, <1>4, <1>5, <1>1, <2>2 DEF RegisterVaultAppRole, TypeOK, Creation, Void, Goto, PCs
  <2>3. CASE GenerateAppRoleSecretId(h)
    BY <1>2, <1>3, <1>4, <1>5, <1>1, <2>3 DEF GenerateAppRoleSecretId, TypeOK, Creation, Void, Goto, PCs
  <2>4. CASE StoreAppRoleInfo(h)
    BY <1>2, <1>3, <1>4, <1>5, <1>1, <2>4 DEF StoreAppRoleInfo, TypeOK, Creation, Void, Goto, PCs
  <2> QED
    BY <2>1, <2>2, <2>3, <2>4
<1>7. TypeOK'
  BY <1>1, <1>4, <1>5, <1>6 DEF TypeOK
<1>8. \A j \in found'[h] : Settled(j)'
  <2>1. ASSUME NEW j \in found[h] PROVE Settled(j)'
    <3>1. Settled(j) /\ j # k /\ j \in KeyIds
      BY <1>1, <1>2 DEF IInv, HandlerInv, Context, Settled, TypeOK
    <3> QED
      BY <1>5, <1>6, <3>1 DEF Settled, Void
  <2> QED
    BY <1>5, <2>1
<1>9. Context(h)'
  BY <1>2, <1>4, <1>5, <1>6, <1>8 DEF Context
<1>10. Usable(k)' /\ Left(k)'
  <2>1. k \notin Rows'
    BY <1>2, <1>5 DEF Rows
  <2>2. Busy(k)'
    BY <1>2, <1>5 DEF Busy, Processes
  <2> QED
    BY <2>1, <2>2 DEF Usable, Left
<1>11. op[h] # "remove" /\ db'[k] = NoRow /\ pc[h] # "delete" /\ op'[h] = op[h] /\ key'[h] = k
       /\ op'[h] # "remove"
  BY <1>1, <1>2, <1>5
<1> QED
  BY <1>2, <1>4, <1>5, <1>6, <1>7, <1>9, <1>10, <1>11, KeyStep

-----------------------------------------------------------------------------
\* What is known of a removal; only one removes a row.
LEMMA RemovalKnown ==
    ASSUME IInv, NEW h \in Processes,
           pc[h] \in {"delete", "uninfo", "unrole", "unpolicy"} \/ op[h] = "remove"
    PROVE  /\ op[h] = "remove" /\ Removal(h) /\ key[h] \in KeyIds /\ Settled(key[h])
           /\ pc[h] # "delete" => Deleting(key[h]) = {h}
<1>1. TypeOK /\ HandlerInv /\ PairInv /\ Context(h)
  BY DEF IInv, HandlerInv
<1>2. op[h] = "remove" /\ Removal(h)
  BY <1>1 DEF Context, Creation, TypeOK, Ops
<1>3. ASSUME NEW p \in Processes, op[p] = "remove", pc[p] # "delete", pc[h] # "delete", p # h
      PROVE  key[p] # key[h]
  BY <1>1, <1>2, <1>3 DEF PairInv, Apart
<1> QED
  BY <1>2, <1>3 DEF Deleting, Removal

\* A step of unregisterAppRole, after the row has been deleted.
LEMMA UnregisterInv ==
    ASSUME IInv, NEW h \in Processes,
           RemoveAppRoleInfo(h) \/ UnregisterVaultAppRole(h) \/ UnregisterVaultPolicy(h)
    PROVE  IInv'
<1> PICK k : k = key[h]
  OBVIOUS
<1>1. TypeOK /\ HandlerInv /\ PairInv /\ pc[h] \in {"uninfo", "unrole", "unpolicy"}
  BY DEF IInv, RemoveAppRoleInfo, UnregisterVaultAppRole, UnregisterVaultPolicy
<1>2. /\ op[h] = "remove" /\ Removal(h) /\ k \in KeyIds /\ Settled(k) /\ Deleting(k) = {h}
      /\ db[k] # NoRow
  BY <1>1, RemovalKnown DEF Removal
<1>3. PICK l \in {"unrole", "unpolicy", "commit"} : Goto(h, l)
  BY DEF RemoveAppRoleInfo, UnregisterVaultAppRole, UnregisterVaultPolicy
<1>4. /\ pc' \in [Processes -> PCs] /\ pc'[h] = l
      /\ \A q \in Processes \ {h} : pc'[q] = pc[q]
  BY <1>1, <1>3, Moved DEF PCs
<1>5. UNCHANGED <<db, due, used, sessions, op, key, row, found, queue, damaged>>
  BY DEF RemoveAppRoleInfo, UnregisterVaultAppRole, UnregisterVaultPolicy, rows, request
<1>6. Settled(k)'
  BY <1>2, <1>5 DEF Settled
<1>7. /\ policy' \in [KeyIds -> Row \cup {NoRow}] /\ role' \subseteq KeyIds
      /\ secret' \subseteq role' /\ info' \subseteq KeyIds
      /\ \A j \in KeyIds \ {k} :
           /\ policy'[j] = policy[j] /\ (j \in role' <=> j \in role)
           /\ (j \in secret' <=> j \in secret) /\ (j \in info' <=> j \in info)
      /\ Removal(h)'
  <2>1. CASE RemoveAppRoleInfo(h)
    BY <1>1, <1>2, <1>3, <1>4, <1>5, <1>6, <2>1 DEF RemoveAppRoleInfo, TypeOK, Removal, Goto, PCs
  <2>2. CASE UnregisterVaultAppRole(h)
    BY <1>1, <1>2, <1>3, <1>4, <1>5, <1>6, <2>2 DEF UnregisterVaultAppRole, TypeOK, Removal, Goto, PCs
  <2>3. CASE UnregisterVaultPolicy(h)
    BY <1>1, <1>2, <1>3, <1>4, <1>5, <1>6, <2>3 DEF UnregisterVaultPolicy, TypeOK, Removal, Goto, PCs
  <2> QED
    BY <2>1, <2>2, <2>3
<1>8. TypeOK'
  BY <1>1, <1>4, <1>5, <1>7 DEF TypeOK
<1>9. \A j \in found'[h] : Settled(j)'
  <2>1. ASSUME NEW j \in found[h] PROVE Settled(j)'
    <3>1. Settled(j) /\ j \in KeyIds
      BY <1>1 DEF HandlerInv, Context, TypeOK
    <3>2. CASE j = k
      BY <1>6, <3>2
    <3>3. CASE j # k
      BY <1>5, <1>7, <3>1, <3>3 DEF Settled, Void
    <3> QED
      BY <3>2, <3>3
  <2> QED
    BY <1>5, <2>1
<1>10. Context(h)'
  BY <1>2, <1>4, <1>5, <1>7, <1>9 DEF Context
<1>11. Usable(k)' /\ Left(k)'
  <2>1. h \in Deleting(k)' /\ pc'[h] # "uninfo"
    BY <1>2, <1>4, <1>5 DEF Deleting, Processes
  <2>2. Busy(k)'
    BY <1>2, <1>5 DEF Busy, Processes
  <2> QED
    BY <2>1, <2>2 DEF Usable, Left
<1>12. /\ pc[h] # "delete" /\ op'[h] = op[h] /\ key'[h] = k
       /\ \A q \in Processes \ {h} : op[q] = "remove" /\ pc[q] # "delete" => key[q] # k
  BY <1>1, <1>2, <1>5 DEF Deleting
<1> QED
  BY <1>2, <1>4, <1>5, <1>6, <1>7, <1>8, <1>10, <1>11, <1>12, KeyStep

LEMMA DeleteRowInv ==
    ASSUME IInv, NEW h \in Processes, DeleteRow(h) PROVE IInv'
<1> PICK k : k = key[h]
  OBVIOUS
<1>1. /\ TypeOK /\ HandlerInv /\ KeyInv /\ pc[h] = "delete" /\ Deleting(k) = {}
      /\ UNCHANGED <<db, due, used, policy, role, secret, info, sessions, queue, damaged>>
  BY DEF IInv, DeleteRow, rows, vault
<1>2. /\ op[h] = "remove" /\ Removal(h) /\ k \in KeyIds /\ Settled(k)
      /\ Usable(k) /\ found[h] \subseteq KeyIds /\ \A j \in found[h] : Settled(j)
  BY <1>1, RemovalKnown DEF KeyInv, HandlerInv, Context, TypeOK
<1>3. CASE db[k] = NoRow /\ Answer(h)
  <2>1. /\ pc' \in [Processes -> PCs] /\ op' \in [Processes -> Ops]
        /\ key' \in [Processes -> KeyIds \cup {NoKey}]
        /\ row' \in [Processes -> Row \cup {NoRow}]
        /\ found' \in [Processes -> SUBSET KeyIds]
        /\ pc'[h] = "idle" /\ op'[h] = "none" /\ found'[h] = {}
        /\ \A q \in Processes \ {h} :
             /\ pc'[q] = pc[q] /\ op'[q] = op[q] /\ key'[q] = key[q]
             /\ row'[q] = row[q] /\ found'[q] = found[q]
    BY <1>1, <1>3, Answered
  <2>2. TypeOK'
    BY <1>1, <2>1 DEF TypeOK
  <2>3. Context(h)'
    BY <2>1 DEF Context
  <2>4. Settled(k)' /\ Void(k)'
    BY <1>1, <1>2, <1>3, <2>1 DEF Settled, Void, Processes
  <2>5. Usable(k)' /\ Left(k)'
    BY <1>1, <1>3, <2>4 DEF Usable, Left, Rows
  <2> QED
    BY <1>1, <1>2, <2>1, <2>2, <2>3, <2>4, <2>5, KeyStep
<1>4. CASE db[k] # NoRow /\ Goto(h, "uninfo") /\ UNCHANGED request
  <2>1. /\ pc' \in [Processes -> PCs] /\ pc'[h] = "uninfo"
        /\ \A q \in Processes \ {h} : pc'[q] = pc[q]
        /\ UNCHANGED <<op, key, row, found>>
    BY <1>1, <1>4, Moved DEF PCs, request
  <2>2. TypeOK'
    BY <1>1, <2>1 DEF TypeOK
  <2>3. \A j \in found[h] \cup {k} : Settled(j)'
    BY <1>1, <1>2, <2>1 DEF Settled, Void, Processes
  <2>4. Removal(h)'
    BY <1>1, <1>2, <1>4, <2>1, <2>3 DEF Removal
  <2>5. Context(h)'
    BY <1>2, <2>1, <2>3, <2>4 DEF Context
  <2>6. Usable(k)'
    <3>1. k \in Rows \ damaged => k \in info /\ k \in secret /\ policy[k] = db[k]
      BY <1>1, <1>2 DEF Usable
    <3> QED
      BY <1>1, <3>1 DEF Usable, Rows
  <2>7. Left(k)'
    BY <1>1, <1>2, <1>4 DEF Left, Rows
  <2>8. \A q \in Processes \ {h} : op[q] = "remove" /\ pc[q] # "delete" => key[q] # k
    BY <1>1 DEF Deleting
  <2>9. op'[h] = op[h] /\ key'[h] = k
    BY <2>1
  <2> QED
    BY <1>1, <1>2, <2>1, <2>2, <2>3, <2>5, <2>6, <2>7, <2>8, <2>9, KeyStep
<1> QED
  BY <1>3, <1>4 DEF DeleteRow

LEMMA CommitInv ==
    ASSUME IInv, NEW h \in Processes, Commit(h) PROVE IInv'
<1> PICK k : k = key[h]
  OBVIOUS
<1>1. /\ TypeOK /\ HandlerInv /\ KeyInv /\ pc[h] = "commit" /\ Answer(h) /\ Context(h)
      /\ db' = [db EXCEPT ![k] = IF op[h] = "create" THEN row[h] ELSE NoRow]
      /\ UNCHANGED <<due, used, policy, role, secret, info, sessions, queue, damaged>>
  BY DEF IInv, Commit, HandlerInv, vault
<1>2. /\ pc' \in [Processes -> PCs] /\ op' \in [Processes -> Ops]
      /\ key' \in [Processes -> KeyIds \cup {NoKey}]
      /\ row' \in [Processes -> Row \cup {NoRow}]
      /\ found' \in [Processes -> SUBSET KeyIds]
      /\ pc'[h] = "idle" /\ op'[h] = "none" /\ found'[h] = {}
      /\ \A q \in Processes \ {h} :
           /\ pc'[q] = pc[q] /\ op'[q] = op[q] /\ key'[q] = key[q]
           /\ row'[q] = row[q] /\ found'[q] = found[q]
  BY <1>1, Answered
<1>3. Context(h)'
  BY <1>2 DEF Context
<1>4. \/ op[h] = "create" /\ Creation(h)
      \/ op[h] = "remove" /\ Removal(h)
  BY <1>1 DEF Context, TypeOK, Ops
<1>5. k \in KeyIds /\ k \in used
  BY <1>1, <1>4 DEF Creation, Removal, Settled, TypeOK
<1>6. CASE op[h] = "create"
  <2>1. /\ row[h] \in Row /\ policy[k] = row[h] /\ k \in secret /\ k \in info /\ row[h] # NoRow
        /\ Deleting(k) = {}
    BY <1>1, <1>4, <1>6, CreationKnown, ConstantsAssumption DEF Creation
  <2>2. /\ db' \in [KeyIds -> Row \cup {NoRow}] /\ db'[k] = row[h]
        /\ \A j \in KeyIds \ {k} : db'[j] = db[j]
    BY <1>1, <1>5, <1>6, <2>1 DEF TypeOK
  <2>3. TypeOK'
    BY <1>1, <1>2, <2>2 DEF TypeOK
  <2>4. ASSUME NEW q \in Processes, op'[q] = "create" PROVE key'[q] # k
    BY <1>2, <1>6, <2>4 DEF IInv, PairInv, Apart
  <2>5. Settled(k)'
    BY <1>1, <1>5, <2>1, <2>2, <2>4 DEF Settled
  <2>6. Usable(k)' /\ Left(k)'
    BY <1>1, <1>5, <2>1, <2>2 DEF Usable, Left, Rows
  <2> QED
    BY <1>1, <1>2, <1>3, <1>5, <1>6, <2>2, <2>3, <2>5, <2>6, KeyStep
<1>7. CASE op[h] = "remove"
  <2>1. Removal(h) /\ Void(k) /\ Settled(k)
    BY <1>1, <1>4, <1>7 DEF Removal, Void
  <2>2. /\ db' \in [KeyIds -> Row \cup {NoRow}] /\ db'[k] = NoRow
        /\ \A j \in KeyIds \ {k} : db'[j] = db[j]
    BY <1>1, <1>5, <1>7 DEF TypeOK
  <2>3. TypeOK'
    BY <1>1, <1>2, <2>2 DEF TypeOK
  <2>4. Void(k)' /\ Settled(k)'
    BY <1>1, <1>2, <2>1 DEF Settled, Void, Processes
  <2>5. Usable(k)' /\ Left(k)'
    BY <2>2, <2>4 DEF Usable, Left, Rows
  <2> QED
    BY <1>1, <1>2, <1>3, <1>5, <1>7, <2>2, <2>3, <2>4, <2>5, KeyStep
<1> QED
  BY <1>4, <1>6, <1>7

-----------------------------------------------------------------------------
LEMMA FailInv ==
    ASSUME IInv, NEW h \in Processes, Fail(h) PROVE IInv'
<1> PICK k : k = key[h]
  OBVIOUS
<1>1. /\ TypeOK /\ HandlerInv /\ KeyInv /\ Answer(h) /\ Context(h)
      /\ damaged' = damaged \cup {j \in {k} :
           \/ op[h] = "create" /\ pc[h] # "policy"
           \/ op[h] = "remove" /\ pc[h] \notin {"delete", "uninfo"}}
      /\ UNCHANGED <<db, due, used, policy, role, secret, info, sessions, queue>>
  BY DEF IInv, Fail, HandlerInv, vault, rows
<1>2. /\ pc' \in [Processes -> PCs] /\ op' \in [Processes -> Ops]
      /\ key' \in [Processes -> KeyIds \cup {NoKey}]
      /\ row' \in [Processes -> Row \cup {NoRow}]
      /\ found' \in [Processes -> SUBSET KeyIds]
      /\ pc'[h] = "idle" /\ op'[h] = "none" /\ found'[h] = {}
      /\ \A q \in Processes \ {h} :
           /\ pc'[q] = pc[q] /\ op'[q] = op[q] /\ key'[q] = key[q]
           /\ row'[q] = row[q] /\ found'[q] = found[q]
  BY <1>1, Answered
<1>3. Context(h)'
  BY <1>2 DEF Context
<1>4. CASE op[h] \notin {"create", "remove"}
  <2>1. damaged' = damaged
    BY <1>1, <1>4
  <2>2. TypeOK'
    BY <1>1, <1>2, <2>1 DEF TypeOK
  <2>3. \A j \in queue' \cup sessions' : Settled(j)
    BY <1>1 DEF KeyInv, TypeOK
  <2> QED
    BY <1>1, <1>4, <2>1, <2>2, <2>3, ForgetInv
<1>5. CASE op[h] = "create"
  <2>1. Creation(h) /\ k \in KeyIds /\ db[k] = NoRow
    BY <1>5, CreationKnown DEF Creation
  <2>2. TypeOK'
    BY <1>1, <1>2, <2>1 DEF TypeOK
  <2>3. Usable(k)'
    BY <1>1, <2>1 DEF Usable, Rows
  <2>4. Left(k)'
    BY <1>1, <1>5, <2>1 DEF Left, Creation, Void
  <2>5. pc[h] # "delete"
    BY <2>1 DEF Creation
  <2>6. \A j \in KeyIds \ {k} : j \in damaged' <=> j \in damaged
    BY <1>1
  <2> QED
    BY <1>1, <1>2, <1>3, <1>5, <2>1, <2>2, <2>3, <2>4, <2>5, <2>6, KeyStep
<1>6. CASE op[h] = "remove"
  <2>1. Removal(h) /\ k \in KeyIds /\ Settled(k) /\ (pc[h] # "delete" => Deleting(k) = {h})
    BY <1>6, RemovalKnown
  <2>2. TypeOK'
    BY <1>1, <1>2, <2>1 DEF TypeOK
  <2>3. Settled(k)'
    BY <1>1, <1>2, <2>1 DEF Settled, Void, Processes
  <2>4. Left(k)'
    BY <1>1, <2>1, <2>3 DEF Left, Settled, Rows
  <2>5. Usable(k)'
    <3>1. CASE pc[h] \notin {"delete", "uninfo"}
      BY <1>1, <1>6, <3>1 DEF Usable
    <3>2. CASE pc[h] = "uninfo"
      <4>1. \A p \in Deleting(k) : pc[p] = "uninfo"
        BY <2>1, <3>2
      <4>2. damaged' = damaged /\ Usable(k)
        BY <1>1, <1>6, <2>1, <3>2 DEF KeyInv
      <4> QED
        BY <1>1, <4>1, <4>2 DEF Usable, Rows
    <3>3. CASE pc[h] = "delete"
      <4>1. damaged' = damaged /\ Usable(k)
        BY <1>1, <1>6, <2>1, <3>3 DEF KeyInv
      <4>2. \A p \in Deleting(k) : p \in Deleting(k)' /\ pc'[p] = pc[p]
        BY <1>2, <3>3 DEF Deleting, Processes
      <4> QED
        BY <1>1, <4>1, <4>2 DEF Usable, Rows
    <3> QED
      BY <3>1, <3>2, <3>3
  <2>6. \A j \in KeyIds \ {k} : j \in damaged' <=> j \in damaged
    BY <1>1
  <2> QED
    BY <1>1, <1>2, <1>3, <1>6, <2>1, <2>2, <2>3, <2>4, <2>5, <2>6, KeyStep
<1> QED
  BY <1>4, <1>5, <1>6

\* Time, and steps that change nothing.
LEMMA TimeInv ==
    ASSUME IInv, TypeOK',
           UNCHANGED <<db, used, policy, role, secret, info, sessions, pc, op, key, row, found,
                       queue, damaged>>
    PROVE  IInv'
<1>1. \A k : /\ Settled(k) => Settled(k)'
             /\ Usable(k) => Usable(k)'
             /\ Left(k) => Left(k)'
             /\ Void(k)' <=> Void(k)
  <2>1. \A k : Deleting(k)' = Deleting(k) /\ (Busy(k)' <=> Busy(k)) /\ Rows' = Rows
    BY DEF Deleting, Busy, Rows, Processes
  <2> QED
    BY <2>1 DEF Settled, Usable, Left, Void, Processes, Deleting
<1>2. HandlerInv'
  BY <1>1 DEF IInv, HandlerInv, Context, Creation, Removal
<1>3. PairInv'
  BY DEF IInv, PairInv, Apart
<1>4. KeyInv'
  BY <1>1 DEF IInv, KeyInv, Rows
<1> QED
  BY <1>2, <1>3, <1>4 DEF IInv

\* The invariant that everything below is read off.
THEOREM Invariance == Spec => []IInv
<1>1. IInv /\ [Next]_vars => IInv'
  <2> SUFFICES ASSUME IInv, [Next]_vars PROVE IInv'
    OBVIOUS
  <2>1. TypeOK /\ Job \in Processes /\ Handlers \subseteq Processes
    BY DEF IInv, Processes
  <2>2. ASSUME NEW h \in Handlers, Request(h) PROVE IInv'
    <3>1. CASE FindKeys(h)
      <4>1. \A u : WithinExpirationTime(u) \subseteq Rows
        BY DEF WithinExpirationTime
      <4> QED
        BY <2>1, <3>1, <4>1, FindInv DEF FindKeys
    <3> QED
      BY <2>2, <3>1, CreateKeyInv, RemoveKeyInv DEF Request
  <2>3. ASSUME NEW h \in Handlers, Step(h) PROVE IInv'
    BY <2>1, <2>3, RegisterInv, CommitInv, DeleteRowInv, UnregisterInv, PopulateInv, LoginInv
       DEF Step
  <2>4. CASE FindExpired
    BY <2>1, <2>4, FindInv DEF FindExpired
  <2>5. CASE Expire
    <3>1. UNCHANGED <<db, used, policy, role, secret, info, sessions, pc, op, key, row, found,
                      queue, damaged>>
      BY <2>5 DEF Expire, vault, request
    <3>2. TypeOK'
      BY <2>1, <2>5, <3>1 DEF TypeOK, Expire, Rows
    <3> QED
      BY <3>1, <3>2, TimeInv
  <2>6. CASE UNCHANGED vars
    <3>1. UNCHANGED <<db, due, used, policy, role, secret, info, sessions, pc, op, key, row, found,
                      queue, damaged>>
      BY <2>6 DEF vars, rows, vault, request
    <3>2. TypeOK'
      BY <2>1, <3>1 DEF TypeOK
    <3> QED
      BY <3>1, <3>2, TimeInv
  <2> QED
    BY <2>1, <2>2, <2>3, <2>4, <2>5, <2>6, FailInv, PopulateInv DEF Next
<1> QED
  BY InitInv, <1>1, PTL DEF Spec

\* The state has its type; in particular, a role that is removed takes its secret id.
THEOREM TypeCorrect == Spec => []TypeOK
<1>1. IInv => TypeOK
  BY DEF IInv
<1> QED
  BY <1>1, Invariance, PTL

\* A key that is listed can be used, as registerAppRole and unregisterAppRole leave it.
THEOREM KeysUsable == Spec => []RowUsable
<1>1. IInv => RowUsable
  BY DEF IInv, KeyInv, RowUsable, Usable, Rows
<1> QED
  BY <1>1, Invariance, PTL

\* unregisterAppRole leaves nothing in Vault, unless a creation has failed half-way.
THEOREM VaultCleared == Spec => []NothingLeft
<1>1. IInv => NothingLeft
  BY DEF IInv, KeyInv, NothingLeft, Left, Void
<1> QED
  BY <1>1, Invariance, PTL

\* No token that ApiKeyStrategy has got for a key outlives the rights of the key.
THEOREM TokensBounded == Spec => []ReadsOnlyWithRow
<1>1. IInv => ReadsOnlyWithRow
  BY DEF IInv, KeyInv, TypeOK, ReadsOnlyWithRow, Settled, Void
<1> QED
  BY <1>1, Invariance, PTL

\* A find of processAccessKeysQuery is refused for removals only, never for creations.
THEOREM FindsAnswered == Spec => []FindsComplete
<1>1. IInv => FindsComplete
  <2> SUFFICES ASSUME IInv, NEW p \in Processes, NEW k \in found[p] \ info
               PROVE  k \in damaged \/ k \notin Rows \/ Deleting(k) # {}
    BY DEF FindsComplete
  <2>1. k \in Rows => Usable(k)
    BY DEF IInv, KeyInv, Rows
  <2> QED
    BY <2>1 DEF Usable
<1> QED
  BY <1>1, Invariance, PTL
=============================================================================
