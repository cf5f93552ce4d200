--------------------------- MODULE AccountsProofs ---------------------------
(***************************************************************************)
(* Proofs about module Accounts: types, and that live users can log in,    *)
(* removed ones cannot, sessions have the Vault token of their own user,   *)
(* and a wrapping token is good for one log-in, for any number of          *)
(* requests, users and tokens, and whichever calls fail.                   *)
(***************************************************************************)
EXTENDS Accounts, TLAPS

\* h is going to insert a row; h keeps others from the name.
Making(h) == \/ op[h] = "create"
             \/ op[h] = "frontend" /\ uid[h] # NoUid /\ rows[uid[h]] = NoRow
Holds(h)  == Making(h) \/ op[h] \in {"remove", "password"}

\* Id i belongs to name n, or will.
Named(i, n) ==
    /\ i \in used
    /\ rows[i] # NoRow => rows[i].name = n
    /\ \A h \in Handlers : Making(h) /\ uid[h] = i => name[h] = n

\* What a handler at each pc is about.
Shape(h) ==
    /\ pc[h] = "idle" <=> op[h] = "none"
    /\ op[h] = "none" => uid[h] = NoUid
    /\ op[h] \notin {"frontend", "shibboleth"} => wrap[h] = NoWrap
    /\ op[h] # "none" => name[h] \in Names
    /\ op[h] \notin {"none", "frontend"} => uid[h] \in Uids
    /\ op[h] \in {"create", "password"} => password[h] \in Passwords
    /\ op[h] = "create" => pc[h] \in {"policy", "userpass", "commit", "unpolicy"}
    /\ op[h] = "remove" => pc[h] \in {"unuserpass", "unpolicy", "commit"}
    /\ op[h] = "password" => pc[h] \in {"check", "set", "commit"}
    /\ op[h] = "local" => pc[h] = "login"
    /\ op[h] = "shibboleth" => pc[h] \in {"uncubby", "unwrap", "approle"}
    /\ op[h] = "frontend" =>
         /\ pc[h] \in {"insert", "policy", "role", "wrap", "store", "commit"}
         /\ uid[h] = NoUid <=> pc[h] = "insert"
    /\ \/ op[h] = "frontend" /\ pc[h] \in {"store", "commit"}
       \/ op[h] = "shibboleth"
       => wrap[h] \in Wraps

\* What a handler knows of the rows.
Reads(h) ==
    /\ uid[h] # NoUid => Named(uid[h], name[h])
    /\ op[h] = "create" => rows[uid[h]] = NoRow
    /\ Making(h) => RowsOf(name[h]) = {}
    /\ op[h] \in {"remove", "password"} => uid[h] \in Live
    /\ op[h] = "local" => rows[uid[h]] # NoRow

Apart == \A g, h \in Handlers : Holds(g) /\ Holds(h) /\ name[g] = name[h] => g = h

Fresh == \A i \in Uids \ used : rows[i] = NoRow /\ i \notin damaged

Unique == \A i, j \in Live : rows[i].name = rows[j].name => i = j

\* Accounts, entries and sessions are those of the user with the name.
NamesAgree ==
    /\ \A n \in Names : userpass[n] # NoAccount => Named(userpass[n].uid, n)
    /\ \A w \in Wraps : cubby[w] # NoEntry => Named(cubby[w].uid, cubby[w].name)
    /\ \A s \in sessions : s.uid # NoUid =>
         rows[s.uid] # NoRow /\ Named(s.vault, rows[s.uid].name)

RowsInv == /\ TypeOK
           /\ \A h \in Handlers : Shape(h) /\ Reads(h)
           /\ Apart /\ Fresh /\ Unique /\ NamesAgree

-----------------------------------------------------------------------------
\* Nobody logs in to Vault with a password as user i.
NoAccountOf(i) == \A n \in Names : userpass[n] # NoAccount => userpass[n].uid # i

\* What a handler at each pc has done in Vault.
Done(h) ==
    /\ pc[h] = "policy" => Making(h) /\ uid[h] \notin policies
    /\ Making(h) /\ (op[h] = "frontend" \/ pc[h] # "commit")
         /\ (pc[h] = "unpolicy" => uid[h] \notin damaged) => NoAccountOf(uid[h])
    /\ op[h] = "create" /\ pc[h] \in {"userpass", "commit"} => uid[h] \in policies
    /\ op[h] = "create" /\ pc[h] = "commit" =>
         userpass[name[h]] = [uid |-> uid[h], password |-> password[h]]
    /\ op[h] = "remove" /\ pc[h] # "unuserpass" => NoAccountOf(uid[h])
    /\ op[h] = "remove" /\ pc[h] = "commit" => uid[h] \notin policies
    /\ Making(h) /\ op[h] = "frontend" /\ pc[h] # "policy" =>
         uid[h] \in policies \cup refused
    /\ Making(h) /\ pc[h] \in {"wrap", "store", "commit"} /\ op[h] = "frontend" =>
         uid[h] \in roles
    /\ op[h] = "password" /\ pc[h] = "commit" /\ rows[uid[h]].local
         /\ uid[h] \notin damaged =>
         /\ uid[h] \in policies
         /\ userpass[name[h]] = [uid |-> uid[h], password |-> password[h]]

\* No request has begun to change what user i needs in Vault.
Untouched(i) == \A h \in Handlers : uid[h] = i =>
    /\ op[h] = "remove" => pc[h] = "unuserpass"
    /\ op[h] = "password" /\ rows[i].local => pc[h] # "commit"

Intact(i) ==
    IF rows[i].local
      THEN i \in policies /\ userpass[rows[i].name] = [uid |-> i, password |-> told[i]]
      ELSE i \in roles /\ i \in policies \cup refused

Usable(i) == i \in Live \ damaged /\ Untouched(i) => Intact(i)

\* Who has no row and will get none has nothing in Vault to log in with.
Cleared(i) ==
    i \notin Live \cup damaged /\ (\A h \in Handlers : Making(h) => uid[h] # i) =>
        i \notin policies /\ NoAccountOf(i)

VaultInv == (\A h \in Handlers : Done(h)) /\ (\A i \in Uids : Usable(i) /\ Cleared(i))

\* While token w lasts its entry is there, or the reason why not is known.
Good(w) ==
    wrapped[w] # NoUid /\ w \notin refused \cup lost
      /\ (\A h \in Handlers : wrap[h] = w => pc[h] # "unwrap")
    => cubby[w] # NoEntry

\* Every token of a browser, and of a front end that is about to give it away.
Given == (cookies \cup {wrap[h] : h \in {g \in Handlers : pc[g] = "commit"}}) \ {NoWrap}

TokensInv == \A w \in Given : Good(w)

\* Who has got a secret id from a token is the only one, and the token is spent.
Spent == /\ \A h \in Handlers : op[h] = "shibboleth" => wrap[h] \in cookies
         /\ \A h \in Handlers : pc[h] = "approle" => wrapped[wrap[h]] = NoUid
         /\ \A s \in sessions : s.wrap # NoWrap =>
              s.wrap \in cookies /\ wrapped[s.wrap] = NoUid

IInv == RowsInv /\ VaultInv /\ TokensInv /\ Spent /\ TokenUsedOnce

-----------------------------------------------------------------------------
\* What the beginning, the next call and the answer of a request do to handlers.
RequestType ==
    /\ pc \in [Handlers -> PCs] /\ op \in [Handlers -> Ops]
    /\ name \in [Handlers -> Names \cup {NoName}]
    /\ uid \in [Handlers -> Uids \cup {NoUid}]
    /\ wrap \in [Handlers -> Wraps \cup {NoWrap}]
    /\ password \in [Handlers -> Passwords \cup {NoPassword}]

Same(g) == /\ pc'[g] = pc[g] /\ op'[g] = op[g] /\ name'[g] = name[g]
           /\ uid'[g] = uid[g] /\ wrap'[g] = wrap[g] /\ password'[g] = password[g]

Others(h) == \A g \in Handlers \ {h} : Same(g)

LEMMA StartStep ==
    ASSUME NEW h \in Handlers, RequestType, NEW o \in Ops, NEW n \in Names \cup {NoName},
           NEW i \in Uids \cup {NoUid}, NEW w \in Wraps \cup {NoWrap},
           NEW p \in Passwords \cup {NoPassword}, NEW l \in PCs, Start(h, o, n, i, w, p, l)
    PROVE  /\ RequestType' /\ Others(h) /\ pc[h] = "idle"
           /\ pc'[h] = l /\ op'[h] = o /\ name'[h] = n /\ uid'[h] = i /\ wrap'[h] = w
           /\ password'[h] = p
  BY DEF RequestType, Start, Goto, Others, Same

LEMMA GotoStep ==
    ASSUME NEW h \in Handlers, RequestType, NEW l \in PCs, Goto(h, l), UNCHANGED request
    PROVE  /\ RequestType' /\ Others(h) /\ pc'[h] = l
           /\ op'[h] = op[h] /\ name'[h] = name[h] /\ uid'[h] = uid[h]
           /\ wrap'[h] = wrap[h] /\ password'[h] = password[h]
  BY DEF RequestType, Goto, request, Others, Same

LEMMA AnswerStep ==
    ASSUME NEW h \in Handlers, RequestType, Answer(h)
    PROVE  /\ RequestType' /\ Others(h)
           /\ pc'[h] = "idle" /\ op'[h] = "none" /\ uid'[h] = NoUid /\ wrap'[h] = NoWrap
  BY DEF RequestType, Answer, Goto, Others, Same, PCs, Ops

LEMMA TypeParts == TypeOK => RequestType
  BY DEF TypeOK, RequestType

LEMMA RowTypes ==
    ASSUME TypeOK
    PROVE  /\ \A i \in Live : i \in Uids /\ rows[i] \in Row /\ rows[i].name \in Names
                                /\ rows[i].local \in BOOLEAN
           /\ \A n : \A i \in RowsOf(n) : i \in Live /\ rows[i].name = n
           /\ \A n \in Names : userpass[n] # NoAccount =>
                userpass[n] \in Account /\ userpass[n].uid \in Uids
           /\ \A w \in Wraps : cubby[w] # NoEntry =>
                cubby[w] \in Entry /\ cubby[w].uid \in Uids /\ cubby[w].name \in Names
           /\ \A s \in sessions : s.vault \in Uids /\ s.uid \in Uids \cup {NoUid}
  BY DEF TypeOK, Live, RowsOf, Row, Account, Entry, Session

\* The requests as they begin.
Begins(h, o, n, i, w, p, l) ==
    /\ Start(h, o, n, i, w, p, l)
    /\ o = "create" => l = "policy" /\ i \in Uids /\ w = NoWrap /\ p \in Passwords
    /\ o = "remove" => l = "unuserpass" /\ i \in Uids /\ w = NoWrap
    /\ o = "password" =>
         l \in {"check", "set"} /\ i \in Uids /\ w = NoWrap /\ p \in Passwords
    /\ o = "local" => l = "login" /\ i \in Uids /\ w = NoWrap
    /\ o = "shibboleth" => l = "uncubby" /\ i \in Uids /\ w \in Wraps
    /\ o = "frontend" => \/ l = "insert" /\ i = NoUid
                         \/ l = "wrap" /\ i \in Uids
    /\ o = "create" => /\ i \notin used /\ used' = used \cup {i}
                       /\ RowsOf(n) = {} /\ ~ Locked(n)
    /\ o # "create" => used' = used
    /\ o \in {"remove", "password"} => ~ Locked(n)
    /\ o \in {"remove", "password", "local"} \/ (o = "frontend" /\ i # NoUid) =>
         i \in Live /\ rows[i].name = n
    /\ o = "shibboleth" => /\ w \in cookies /\ cubby[w] # NoEntry
                           /\ cubby[w].name = n /\ cubby[w].uid = i
    /\ UNCHANGED <<rows, vault, cookies, sessions, queue, history>>

LEMMA Beginnings ==
    ASSUME TypeOK, NEW h \in Handlers, Request(h)
    PROVE  \E o \in Ops \ {"none"}, n \in Names, i \in Uids \cup {NoUid},
              w \in Wraps \cup {NoWrap}, p \in Passwords \cup {NoPassword}, l \in PCs :
             Begins(h, o, n, i, w, p, l)
<1> USE RowTypes DEF Ops, PCs, Begins
<1>0. NoUid \notin Uids
  BY ConstantsAssumption
<1>1. CASE CreateUser(h)
  <2>1. PICK n \in Names, i \in Uids \ used, p \in Passwords :
          /\ RowsOf(n) = {} /\ ~ Locked(n)
          /\ Start(h, "create", n, i, NoWrap, p, "policy")
          /\ used' = used \cup {i}
          /\ UNCHANGED <<rows, vault, cookies, sessions, queue, history>>
    BY <1>1 DEF CreateUser
  <2> QED
    BY <2>1
<1>2. CASE RemoveUser(h)
  <2>1. PICK i \in Live :
          /\ ~ Locked(rows[i].name)
          /\ Start(h, "remove", rows[i].name, i, NoWrap, NoPassword, "unuserpass")
          /\ UNCHANGED <<rows, used, vault, cookies, sessions, queue, history>>
    BY <1>2 DEF RemoveUser
  <2> QED
    BY <2>1
<1>3. CASE PatchPassword(h)
  <2>1. PICK i \in Live, p \in Passwords, l \in {"check", "set"} :
          /\ ~ Locked(rows[i].name)
          /\ Start(h, "password", rows[i].name, i, NoWrap, p, l)
          /\ UNCHANGED <<rows, used, vault, cookies, sessions, queue, history>>
    BY <1>3 DEF PatchPassword
  <2> QED
    BY <2>1
<1>4. CASE FindUidByName(h)
  <2>1. PICK n \in Names :
          /\ \/ \E i \in RowsOf(n) : Start(h, "frontend", n, i, NoWrap, NoPassword, "wrap")
             \/ Start(h, "frontend", n, NoUid, NoWrap, NoPassword, "insert")
          /\ UNCHANGED <<rows, used, vault, cookies, sessions, queue, history>>
    BY <1>4 DEF FindUidByName
  <2>2. CASE Start(h, "frontend", n, NoUid, NoWrap, NoPassword, "insert")
    BY <2>1, <2>2
  <2>3. ASSUME NEW i \in RowsOf(n), Start(h, "frontend", n, i, NoWrap, NoPassword, "wrap")
        PROVE  i \in Uids /\ i \in Live /\ rows[i].name = n
    OBVIOUS
  <2>4. CASE \E i \in RowsOf(n) : Start(h, "frontend", n, i, NoWrap, NoPassword, "wrap")
    BY <2>1, <2>3, <2>4
  <2> QED
    BY <2>1, <2>2, <2>4
<1>5. CASE GetShibbolethParams(h)
  <2>1. PICK w \in cookies :
          /\ cubby[w] # NoEntry
          /\ Start(h, "shibboleth", cubby[w].name, cubby[w].uid, w, NoPassword, "uncubby")
          /\ UNCHANGED <<rows, used, vault, cookies, sessions, queue, history>>
    BY <1>5 DEF GetShibbolethParams
  <2>2. w \in Wraps
    BY DEF TypeOK
  <2> QED
    BY <2>1, <2>2
<1>6. CASE FindEntity(h)
  <2>1. PICK i \in Live :
          /\ Start(h, "local", rows[i].name, i, NoWrap, NoPassword, "login")
          /\ UNCHANGED <<rows, used, vault, cookies, sessions, queue, history>>
    BY <1>6 DEF FindEntity
  <2> QED
    BY <2>1
<1> QED
  BY <1>1, <1>2, <1>3, <1>4, <1>5, <1>6 DEF Request

-----------------------------------------------------------------------------
\* Types, and the control of the requests.
StoreType ==
    /\ rows \in [Uids -> Row \cup {NoRow}] /\ used \subseteq Uids
    /\ policies \subseteq Uids /\ roles \subseteq Uids
    /\ userpass \in [Names -> Account \cup {NoAccount}]
    /\ wrapped \in [Wraps -> Uids \cup {NoUid}]
    /\ cubby \in [Wraps -> Entry \cup {NoEntry}]
    /\ cookies \subseteq Wraps /\ sessions \subseteq Session
    /\ queue \subseteq {Cut(w) : w \in Wraps}
    /\ damaged \subseteq Uids /\ lost \subseteq Wraps
    /\ refused \subseteq Uids \cup Wraps
    /\ told \in [Uids -> Passwords \cup {NoPassword}]

LEMMA TypeSplit == TypeOK <=> StoreType /\ RequestType
  BY DEF TypeOK, StoreType, RequestType

LEMMA TypeJoin == StoreType' /\ RequestType' => TypeOK'
  BY DEF TypeOK, StoreType, RequestType

\* The clean-up removes no entry.
LEMMA CleanUp == TypeOK /\ RemoveEntry => cubby' = cubby
<1> SUFFICES ASSUME TypeOK, RemoveEntry PROVE cubby' = cubby
  OBVIOUS
<1>1. PICK n \in queue : cubby' = [w \in Wraps |-> IF w = n THEN NoEntry ELSE cubby[w]]
  BY DEF RemoveEntry
<1>2. n \notin Wraps
  BY ConstantsAssumption DEF TypeOK, Cut
<1> QED
  BY <1>1, <1>2 DEF TypeOK

Shapes == \A h \in Handlers : Shape(h)

LEMMA ShapesKept ==
    ASSUME NEW h \in Handlers, Shapes, Others(h), Shape(h)' PROVE Shapes'
<1>1. ASSUME NEW g \in Handlers \ {h} PROVE Shape(g)'
  BY <1>1 DEF Shapes, Others, Same, Shape
<1> QED
  BY <1>1 DEF Shapes

LEMMA TypeRequest ==
    ASSUME TypeOK, Shapes, NEW h \in Handlers, Request(h) PROVE TypeOK' /\ Shapes'
<1>1. PICK o \in Ops \ {"none"}, n \in Names, i \in Uids \cup {NoUid},
           w \in Wraps \cup {NoWrap}, p \in Passwords \cup {NoPassword}, l \in PCs :
        Begins(h, o, n, i, w, p, l)
  BY Beginnings
<1>2. /\ RequestType' /\ Others(h) /\ pc'[h] = l /\ op'[h] = o /\ name'[h] = n
      /\ uid'[h] = i /\ wrap'[h] = w /\ password'[h] = p
  BY <1>1, StartStep, TypeParts DEF Begins
<1>3. StoreType'
  BY <1>1, TypeSplit DEF Begins, StoreType, vault, history
<1>4. Shape(h)'
  BY <1>1, <1>2, ConstantsAssumption DEF Shape, Ops, Begins
<1> QED
  BY <1>2, <1>3, <1>4, TypeJoin, ShapesKept

LEMMA TypeAnswered ==
    ASSUME Shapes, RequestType, NEW h \in Handlers, Answer(h)
    PROVE  RequestType' /\ Shapes'
<1>1. Shape(h)'
  BY AnswerStep DEF Shape
<1> QED
  BY <1>1, AnswerStep, ShapesKept

LEMMA TypeGoes ==
    ASSUME Shapes, RequestType, NEW h \in Handlers, NEW l \in PCs \ {"idle"},
           Goto(h, l), UNCHANGED request, pc[h] # "idle",
           op[h] = "create" => l \in {"userpass", "commit", "unpolicy"},
           op[h] = "remove" => l \in {"unpolicy", "commit"},
           op[h] = "password" => l \in {"set", "commit"},
           op[h] = "shibboleth" => l \in {"unwrap", "approle"},
           op[h] = "frontend" => pc[h] # "insert" /\ l \in {"role", "wrap", "commit"},
           op[h] # "local", l \in {"commit", "unwrap", "approle"} /\ op[h] \in {"frontend", "shibboleth"}
             => wrap[h] \in Wraps
    PROVE  RequestType' /\ Shapes'
<1>1. Shape(h)'
  BY GotoStep DEF Shape, Shapes
<1> QED
  BY <1>1, GotoStep, ShapesKept

LEMMA TypeStep ==
    ASSUME TypeOK, Shapes, NEW h \in Handlers, Reads(h), Step(h)
    PROVE  TypeOK' /\ Shapes'
<1> USE DEF PCs
<1>0. RequestType /\ StoreType /\ Shape(h) /\ (op[h] # "none" => name[h] \in Names)
      /\ NoUid \notin Uids /\ op[h] \in Ops
  BY TypeSplit, ConstantsAssumption DEF Shapes, Shape, RequestType
<1>1. CASE CreatePolicy(h)
  <2>1. op[h] \in {"create", "frontend"} /\ uid[h] \in Uids
    BY <1>0, <1>1 DEF Shape, CreatePolicy, RequestType, Ops
  <2>2. RequestType' /\ Shapes'
    BY <1>0, <1>1, <2>1, TypeGoes DEF CreatePolicy
  <2> QED
    BY <1>0, <1>1, <2>1, <2>2, TypeJoin DEF CreatePolicy, StoreType, history
<1>2. CASE PolicyHalfDone(h)
  <2>1. uid[h] \in Uids
    BY <1>0, <1>2 DEF Shape, PolicyHalfDone
  <2> QED
    BY <1>0, <1>2, <2>1, TypeJoin, TypeAnswered DEF PolicyHalfDone, StoreType
<1>3. CASE CreateVaultUser(h)
  <2>1. op[h] = "create"
    BY <1>0, <1>3 DEF Shape, CreateVaultUser, Ops
  <2>2. [uid |-> uid[h], password |-> password[h]] \in Account
    BY <1>0, <2>1 DEF Shape, Account
  <2>3. RequestType' /\ Shapes'
    BY <1>0, <1>3, <2>1, TypeGoes DEF CreateVaultUser
  <2> QED
    BY <1>0, <1>3, <2>2, <2>3, TypeJoin DEF CreateVaultUser, StoreType, history
<1>19. CASE AccountHalfDone(h)
  <2>1. op[h] = "create" /\ uid[h] \in Uids
    BY <1>0, <1>19 DEF Shape, AccountHalfDone, Ops
  <2>2. [uid |-> uid[h], password |-> password[h]] \in Account
    BY <1>0, <2>1 DEF Shape, Account
  <2>3. RequestType' /\ Shapes'
    BY <1>0, <1>19, <2>1, TypeGoes DEF AccountHalfDone
  <2> QED
    BY <1>0, <1>19, <2>1, <2>2, <2>3, TypeJoin DEF AccountHalfDone, StoreType
<1>4. CASE UndoPolicy(h)
  <2>1. op[h] = "create"
    BY <1>0, <1>4 DEF Shape, UndoPolicy, Ops
  <2> QED
    BY <1>0, <1>4, <2>1, TypeGoes, TypeJoin DEF UndoPolicy, StoreType, history, vault
<1>5. CASE RemoveVaultUser(h)
  <2>1. op[h] = "remove"
    BY <1>0, <1>5 DEF Shape, RemoveVaultUser, Ops
  <2>2. RequestType' /\ Shapes'
    BY <1>0, <1>5, <2>1, TypeGoes DEF RemoveVaultUser
  <2> QED
    BY <1>0, <1>5, <2>2, TypeJoin DEF RemoveVaultUser, StoreType, history
<1>6. CASE RemovePolicy(h)
  <2>2. RequestType' /\ Shapes'
    BY <1>0, <1>6, TypeGoes, TypeAnswered DEF RemovePolicy
  <2> QED
    BY <1>0, <1>6, <2>2, TypeJoin DEF RemovePolicy, StoreType, history
<1>7. CASE CheckCurrentPassword(h)
  <2>1. op[h] = "password"
    BY <1>0, <1>7 DEF Shape, CheckCurrentPassword, Ops
  <2>2. RequestType' /\ Shapes'
    BY <1>0, <1>7, <2>1, TypeGoes, TypeAnswered DEF CheckCurrentPassword
  <2> QED
    BY <1>0, <1>7, <2>2, TypeJoin DEF CheckCurrentPassword, StoreType, history, vault
<1>8. CASE ChangePassword(h)
  <2>1. op[h] = "password" /\ password[h] \in Passwords
    BY <1>0, <1>8 DEF Shape, ChangePassword, Ops
  <2>2. RequestType' /\ Shapes'
    BY <1>0, <1>8, <2>1, TypeGoes, TypeAnswered DEF ChangePassword
  <2>3. userpass' \in [Names -> Account \cup {NoAccount}]
    <3>1. CASE userpass[name[h]] = NoAccount
      BY <1>0, <1>8, <3>1 DEF ChangePassword, StoreType
    <3>2. CASE userpass[name[h]] # NoAccount
      <4>1. userpass[name[h]] \in Account
        BY <1>0, <2>1, <3>2 DEF StoreType
      <4>2. [userpass[name[h]] EXCEPT !.password = password[h]] \in Account
        BY <2>1, <4>1 DEF Account
      <4> QED
        BY <1>0, <1>8, <3>2, <4>2 DEF ChangePassword, StoreType
    <3> QED
      BY <3>1, <3>2
  <2> QED
    BY <1>0, <1>8, <2>2, <2>3, TypeJoin DEF ChangePassword, StoreType, history
<1>9. CASE Commit(h)
  <2>1. RequestType' /\ Shapes'
    BY <1>0, <1>9, TypeAnswered DEF Commit
  <2>2. /\ uid[h] \in Uids /\ op[h] \in {"create", "remove", "password", "frontend"}
        /\ name[h] \in Names
        /\ op[h] \in {"create", "password"} => password[h] \in Passwords
    BY <1>0, <1>9 DEF Shape, Commit, Ops, RequestType
  <2>3. ASSUME NEW r \in Row PROVE [r EXCEPT !.deleted = TRUE] \in Row
    BY DEF Row
  <2>4. [name |-> name[h], deleted |-> FALSE, local |-> op[h] = "create"] \in Row
    BY <2>2 DEF Row
  <2>5. op[h] = "remove" => rows[uid[h]] \in Row
    BY <2>2, RowTypes DEF Reads
  <2>6. rows' \in [Uids -> Row \cup {NoRow}]
    <3>1. CASE op[h] = "remove"
      BY <1>0, <1>9, <2>2, <2>3, <2>5, <3>1 DEF Commit, StoreType
    <3>2. CASE op[h] # "remove" /\ rows[uid[h]] = NoRow
      BY <1>0, <1>9, <2>2, <2>4, <3>2 DEF Commit, StoreType
    <3>3. CASE op[h] # "remove" /\ rows[uid[h]] # NoRow
      BY <1>0, <1>9, <2>2, <3>3 DEF Commit, StoreType
    <3> QED
      BY <3>1, <3>2, <3>3
  <2>7. told' \in [Uids -> Passwords \cup {NoPassword}]
    BY <1>0, <1>9, <2>2 DEF Commit, StoreType
  <2>8. cookies' \subseteq Wraps
    BY <1>0, <1>9 DEF Commit, StoreType, RequestType
  <2> QED
    BY <1>0, <1>9, <2>1, <2>6, <2>7, <2>8, TypeJoin DEF Commit, StoreType, vault
<1>10. CASE StoreEppnDb(h)
  <2>1. op[h] = "frontend"
    BY <1>0, <1>10 DEF Shape, StoreEppnDb, Ops
  <2>2. StoreType'
    BY <1>0, <1>10 DEF StoreEppnDb, StoreType, vault, history
  <2>3. CASE Answer(h)
    BY <1>0, <2>2, <2>3, TypeAnswered, TypeJoin
  <2>4. CASE ~ Answer(h)
    <3>1. PICK i \in Uids : /\ uid' = [uid EXCEPT ![h] = i] /\ Goto(h, "policy")
                            /\ UNCHANGED <<op, name, wrap, password>>
      BY <1>10, <2>4 DEF StoreEppnDb
    <3>2. RequestType' /\ Others(h)
      BY <1>0, <3>1 DEF RequestType, Goto, Others, Same
    <3>3. Shape(h)'
      BY <1>0, <2>1, <3>1 DEF Shape, Goto, RequestType
    <3> QED
      BY <2>2, <3>2, <3>3, ShapesKept, TypeJoin
  <2> QED
    BY <2>3, <2>4
<1>11. CASE PolicyRefused(h)
  <2>1. op[h] = "frontend" /\ uid[h] \in Uids
    BY <1>0, <1>11 DEF Shape, PolicyRefused, RequestType
  <2>2. RequestType' /\ Shapes'
    BY <1>0, <1>11, <2>1, TypeGoes DEF PolicyRefused
  <2> QED
    BY <1>0, <1>11, <2>1, <2>2, TypeJoin DEF PolicyRefused, StoreType, vault
<1>12. CASE CreateApprole(h)
  <2>1. op[h] = "frontend" /\ uid[h] \in Uids
    BY <1>0, <1>12 DEF Shape, CreateApprole, RequestType, Ops
  <2>2. RequestType' /\ Shapes'
    BY <1>0, <1>12, <2>1, TypeGoes DEF CreateApprole
  <2> QED
    BY <1>0, <1>12, <2>1, <2>2, TypeJoin DEF CreateApprole, StoreType, history
<1>13. CASE GenerateSecretId(h)
  <2>1. op[h] = "frontend" /\ uid[h] \in Uids
    BY <1>0, <1>13 DEF Shape, GenerateSecretId, RequestType, Ops
  <2>2. PICK w \in Wraps : /\ wrapped' = [wrapped EXCEPT ![w] = uid[h]]
                           /\ wrap' = [wrap EXCEPT ![h] = w]
    BY <1>13 DEF GenerateSecretId
  <2>3. RequestType' /\ Others(h)
    BY <1>0, <1>13, <2>2 DEF RequestType, Goto, Others, Same, GenerateSecretId
  <2>4. Shape(h)'
    BY <1>0, <1>13, <2>1, <2>2 DEF Shape, Goto, RequestType, GenerateSecretId
  <2>5. StoreType'
    BY <1>0, <1>13, <2>1, <2>2 DEF GenerateSecretId, StoreType, history
  <2> QED
    BY <2>3, <2>4, <2>5, ShapesKept, TypeJoin
<1>14. CASE StoreApproleInfo(h)
  <2>1. op[h] = "frontend" /\ uid[h] \in Uids /\ wrap[h] \in Wraps
    BY <1>0, <1>14 DEF Shape, StoreApproleInfo, RequestType, Ops
  <2>2. [name |-> name[h], uid |-> uid[h]] \in Entry
    BY <1>0, <2>1 DEF Entry
  <2>3. RequestType' /\ Shapes'
    BY <1>0, <1>14, <2>1, TypeGoes DEF StoreApproleInfo
  <2> QED
    BY <1>0, <1>14, <2>1, <2>2, <2>3, TypeJoin DEF StoreApproleInfo, StoreType
<1>15. CASE RemoveShibbolethParams(h)
  <2>1. op[h] = "shibboleth" /\ wrap[h] \in Wraps
    BY <1>0, <1>15 DEF Shape, RemoveShibbolethParams, Ops
  <2>2. RequestType' /\ Shapes'
    BY <1>0, <1>15, <2>1, TypeGoes DEF RemoveShibbolethParams
  <2> QED
    BY <1>0, <1>15, <2>2, TypeJoin DEF RemoveShibbolethParams, StoreType, history
<1>16. CASE GetSecretId(h)
  <2>1. op[h] = "shibboleth" /\ wrap[h] \in Wraps
    BY <1>0, <1>16 DEF Shape, GetSecretId, Ops
  <2>2. RequestType' /\ Shapes'
    BY <1>0, <1>16, <2>1, TypeGoes, TypeAnswered DEF GetSecretId
  <2> QED
    BY <1>0, <1>16, <2>2, TypeJoin DEF GetSecretId, StoreType, history
<1>17. CASE VaultLogin(h)
  <2>1. op[h] = "shibboleth" /\ uid[h] \in Uids
    BY <1>0, <1>17 DEF Shape, VaultLogin, Ops
  <2>2. PICK i \in IF RowsOf(name[h]) = {} THEN {NoUid} ELSE RowsOf(name[h]) :
          sessions' = sessions \cup {[uid |-> i, vault |-> uid[h], wrap |-> wrap[h]]}
    BY <1>17 DEF VaultLogin
  <2>3. i \in Uids \cup {NoUid}
    BY <2>2, RowTypes
  <2>4. [uid |-> i, vault |-> uid[h], wrap |-> wrap[h]] \in Session
    BY <1>0, <2>1, <2>3 DEF Session, RequestType
  <2> QED
    BY <1>0, <1>17, <2>2, <2>4, TypeJoin, TypeAnswered
       DEF VaultLogin, StoreType, history, vault
<1>18. CASE Login(h)
  <2>1. op[h] = "local" /\ uid[h] \in Uids
    BY <1>0, <1>18 DEF Shape, Login, Ops
  <2>2. \A a \in {userpass[name[h]]} \ {NoAccount} :
          [uid |-> uid[h], vault |-> a.uid, wrap |-> NoWrap] \in Session
    BY <1>0, <2>1, RowTypes DEF Session
  <2> QED
    BY <1>0, <1>18, <2>2, TypeJoin, TypeAnswered DEF Login, StoreType, history, vault
<1> QED
  BY <1>1, <1>2, <1>3, <1>4, <1>5, <1>6, <1>7, <1>8, <1>9, <1>10, <1>11, <1>12, <1>13,
     <1>14, <1>15, <1>16, <1>17, <1>18, <1>19 DEF Step

LEMMA TypeFail ==
    ASSUME TypeOK, Shapes, NEW h \in Handlers, Fail(h) PROVE TypeOK' /\ Shapes'
<1>1. RequestType /\ StoreType
  BY TypeSplit
<1>2. pc[h] # "idle"
  BY ConstantsAssumption DEF Fail
<1>3. op[h] \in {"create", "remove", "password"} => uid[h] \in Uids
  BY DEF Shapes, Shape
<1>4. damaged' \subseteq Uids /\ cookies' \subseteq Wraps /\ lost' \subseteq Wraps
  <2>1. Shape(h)
    BY DEF Shapes
  <2> QED
    BY <1>1, <1>3, <2>1 DEF Fail, StoreType, RequestType, Shapes, Shape
<1> QED
  BY <1>1, <1>4, TypeJoin, TypeAnswered DEF Fail, StoreType, vault

LEMMA TypeNext ==
    ASSUME TypeOK, Shapes, \A h \in Handlers : Reads(h), [Next]_vars
    PROVE  TypeOK' /\ Shapes'
<1>1. CASE ListCubbyhole \/ RemoveEntry \/ Expire \/ UNCHANGED vars
  <2>1. RequestType /\ StoreType
    BY TypeSplit
  <2>2. UNCHANGED <<pc, request>>
    BY <1>1 DEF ListCubbyhole, RemoveEntry, Expire, vars
  <2>3. RequestType' /\ Shapes'
    BY <2>1, <2>2 DEF RequestType, request, Shapes, Shape
  <2>4. StoreType'
    BY <1>1, <2>1, CleanUp DEF StoreType, ListCubbyhole, RemoveEntry, Expire, vars, vault, history
  <2> QED
    BY <2>3, <2>4, TypeJoin
<1> QED
  BY <1>1, TypeRequest, TypeStep, TypeFail DEF Next

-----------------------------------------------------------------------------
\* Rows and the requests about them.  First what most steps leave as it is.
Released(g) == op'[g] = "none" /\ uid'[g] = NoUid

SameRequest(g) == op'[g] = op[g] /\ name'[g] = name[g] /\ uid'[g] = uid[g]

Quiet == /\ rows' = rows /\ used \subseteq used'
         /\ \A g \in Handlers : SameRequest(g) \/ Released(g)

ReadsInv == \A h \in Handlers : Reads(h)

Core == ReadsInv /\ Apart /\ Unique

NamedKept == \A i, n : Named(i, n) => Named(i, n)'

LEMMA MakingIsHolding ==
    /\ \A h : Making(h) => Holds(h)
    /\ \A n : Locked(n) <=> \E h \in Handlers : name[h] = n /\ Holds(h)
  BY DEF Making, Holds, Locked

LEMMA NamedStays ==
    ASSUME NEW g \in Handlers, Reads(g), NamedKept, SameRequest(g)
    PROVE  (uid[g] # NoUid => Named(uid[g], name[g]))'
  BY DEF Reads, NamedKept, Named, SameRequest

LEMMA QuietKeeps == ASSUME Core, Quiet PROVE Core' /\ NamedKept
<1>1. ASSUME NEW g \in Handlers
      PROVE  /\ Making(g)' => Making(g) /\ SameRequest(g)
             /\ Holds(g)' => Holds(g) /\ SameRequest(g)
  BY DEF Quiet, Released, SameRequest, Making, Holds
<1>2. NamedKept
  BY <1>1 DEF NamedKept, Named, Quiet, SameRequest
<1>3. ASSUME NEW g \in Handlers PROVE Reads(g)'
  <2>1. CASE Released(g)
    BY <2>1 DEF Released, Reads, Making
  <2>2. CASE SameRequest(g)
    <3>1. Live' = Live /\ (RowsOf(name[g]))' = RowsOf(name[g])
      BY <2>2 DEF Quiet, SameRequest, Live, RowsOf
    <3>2. (uid[g] # NoUid => Named(uid[g], name[g]))'
      BY <1>2, <2>2, NamedStays DEF Core, ReadsInv
    <3> QED
      BY <1>1, <2>2, <3>1, <3>2 DEF Core, ReadsInv, Reads, SameRequest, Quiet
  <2> QED
    BY <2>1, <2>2 DEF Quiet
<1>4. Apart'
  BY <1>1 DEF Core, Apart, SameRequest
<1>5. Unique'
  BY DEF Core, Unique, Quiet, Live
<1> QED
  BY <1>2, <1>3, <1>4, <1>5 DEF Core, ReadsInv

\* A request that begins.
LEMMA RequestKeeps ==
    ASSUME TypeOK, Core, Fresh, NamesAgree, NEW h \in Handlers, Request(h)
    PROVE  Core' /\ NamedKept
<1>1. PICK o \in Ops \ {"none"}, n \in Names, i \in Uids \cup {NoUid},
           w \in Wraps \cup {NoWrap}, p \in Passwords \cup {NoPassword}, l \in PCs :
        Begins(h, o, n, i, w, p, l)
  BY Beginnings
<1> USE DEF Begins
<1>0. NoUid \notin Uids
  BY ConstantsAssumption
<1>2. Others(h) /\ op'[h] = o /\ name'[h] = n /\ uid'[h] = i
  BY <1>1, StartStep, TypeParts
<1>3. /\ \A g \in Handlers \ {h} : /\ SameRequest(g) /\ Making(g)' = Making(g)
                                   /\ Holds(g)' = Holds(g)
      /\ Making(h)' <=> o = "create"
      /\ Holds(h)' <=> o \in {"create", "remove", "password"}
  BY <1>1, <1>2 DEF Others, Same, SameRequest, Making, Holds, Live
<1>4. NamedKept
  <2> SUFFICES ASSUME NEW j, NEW m, Named(j, m) PROVE Named(j, m)'
    BY DEF NamedKept
  <2>1. \A g \in Handlers : Making(g)' /\ uid'[g] = j => name'[g] = m
    BY <1>1, <1>2, <1>3 DEF Named, SameRequest
  <2> QED
    BY <1>1, <2>1 DEF Named
<1>5. \A j \in Live : j \in used /\ Named(j, rows[j].name)
  BY DEF Live, Fresh, Named, Core, ReadsInv, Reads, Making
<1>6. i # NoUid => Named(i, n)'
  <2>1. CASE o = "create"
    <3>1. rows[i] = NoRow
      BY <1>1, <2>1 DEF Fresh
    <3>2. \A g \in Handlers \ {h} : Making(g) => uid[g] # i
      BY <1>0, <1>1, <2>1 DEF Core, ReadsInv, Reads, Named, Making
    <3> QED
      BY <1>1, <1>2, <1>3, <2>1, <3>1, <3>2 DEF Named, SameRequest
  <2>2. CASE o = "shibboleth"
    BY <1>1, <1>4, <2>2 DEF NamedKept, NamesAgree
  <2>3. CASE o \in {"remove", "password", "local", "frontend"}
    BY <1>1, <1>4, <1>5, <2>3 DEF NamedKept
  <2> QED
    BY <2>1, <2>2, <2>3 DEF Ops
<1>7. Live' = Live /\ \A m : RowsOf(m)' = RowsOf(m)
  BY <1>1 DEF Live, RowsOf
<1>8. Reads(h)'
  BY <1>0, <1>1, <1>2, <1>3, <1>6, <1>7 DEF Reads, Live, Fresh
<1>9. ASSUME NEW g \in Handlers \ {h} PROVE Reads(g)'
  <2>1. (uid[g] # NoUid => Named(uid[g], name[g]))'
    BY <1>3, <1>4, NamedStays DEF Core, ReadsInv
  <2> QED
    BY <1>1, <1>3, <1>7, <2>1 DEF Core, ReadsInv, Reads, SameRequest
<1>10. Apart'
  BY <1>1, <1>2, <1>3, MakingIsHolding DEF Core, Apart, SameRequest
<1>11. Unique'
  BY <1>1, <1>7 DEF Core, Unique
<1> QED
  BY <1>4, <1>8, <1>9, <1>10, <1>11 DEF Core, ReadsInv

\* The front end has inserted a row.
LEMMA InsertKeeps ==
    ASSUME TypeOK, Shapes, Core, Fresh, NEW h \in Handlers, StoreEppnDb(h), ~ Answer(h)
    PROVE  Core' /\ NamedKept
<1>1. PICK i \in Uids \ used :
        /\ uid' = [uid EXCEPT ![h] = i] /\ used' = used \cup {i}
        /\ RowsOf(name[h]) = {} /\ ~ Locked(name[h]) /\ pc[h] = "insert"
        /\ UNCHANGED <<rows, op, name>>
  BY DEF StoreEppnDb
<1>2. op[h] = "frontend" /\ rows[i] = NoRow /\ i # NoUid
  BY <1>1, ConstantsAssumption DEF Shapes, Shape, Ops, Fresh, TypeOK
<1>3. /\ \A g \in Handlers \ {h} : /\ SameRequest(g) /\ Making(g)' = Making(g)
                                   /\ Holds(g)' = Holds(g)
      /\ uid'[h] = i /\ name'[h] = name[h] /\ op'[h] = "frontend"
  BY <1>1, <1>2 DEF SameRequest, Making, Holds, TypeOK
<1>4. NamedKept
  <2> SUFFICES ASSUME NEW j, NEW m, Named(j, m) PROVE Named(j, m)'
    BY DEF NamedKept
  <2>1. \A g \in Handlers : Making(g)' /\ uid'[g] = j => name'[g] = m
    BY <1>1, <1>3 DEF Named, SameRequest
  <2> QED
    BY <1>1, <2>1 DEF Named
<1>5. Named(i, name[h])'
  <2>1. \A g \in Handlers \ {h} : Making(g) => uid[g] # i
    BY <1>1, <1>2 DEF Core, ReadsInv, Reads, Named, Making
  <2> QED
    BY <1>1, <1>2, <1>3, <2>1 DEF Named, SameRequest
<1>6. Live' = Live /\ \A m : RowsOf(m)' = RowsOf(m)
  BY <1>1 DEF Live, RowsOf
<1>7. Reads(h)'
  BY <1>1, <1>3, <1>5, <1>6 DEF Reads
<1>8. ASSUME NEW g \in Handlers \ {h} PROVE Reads(g)'
  <2>1. (uid[g] # NoUid => Named(uid[g], name[g]))'
    BY <1>3, <1>4, NamedStays DEF Core, ReadsInv
  <2> QED
    BY <1>1, <1>3, <1>6, <2>1 DEF Core, ReadsInv, Reads, SameRequest
<1>9. Apart'
  BY <1>1, <1>3, MakingIsHolding DEF Core, Apart, SameRequest
<1>10. Unique'
  BY <1>1, <1>6 DEF Core, Unique
<1> QED
  BY <1>4, <1>7, <1>8, <1>9, <1>10 DEF Core, ReadsInv

\* A commit: the row of a user is marked, inserted, or as it was.
LEMMA CommitCases ==
    ASSUME TypeOK, Shapes, Core, NEW h \in Handlers, Commit(h)
    PROVE  /\ Others(h) /\ Released(h) /\ uid[h] \in Uids /\ op[h] # "none"
           /\ op[h] \in {"create", "remove", "password", "frontend"}
           /\ \/ /\ op[h] = "remove" /\ uid[h] \in Live
                 /\ rows' = [rows EXCEPT ![uid[h]].deleted = TRUE]
              \/ /\ Making(h) /\ rows[uid[h]] = NoRow
                 /\ rows' = [rows EXCEPT ![uid[h]] =
                               [name |-> name[h], deleted |-> FALSE,
                                local |-> op[h] = "create"]]
              \/ /\ op[h] \in {"password", "frontend"} /\ rows[uid[h]] # NoRow
                 /\ rows' = rows
<1>1. Others(h) /\ Released(h)
  BY AnswerStep, TypeParts DEF Commit, Released
<1>2. /\ op[h] \in {"create", "remove", "password", "frontend"} /\ uid[h] \in Uids
      /\ uid[h] # NoUid
  BY ConstantsAssumption DEF Commit, Shapes, Shape, Ops, TypeOK
<1>3. Reads(h)
  BY DEF Core, ReadsInv
<1>4. CASE op[h] = "remove"
  BY <1>1, <1>2, <1>3, <1>4 DEF Commit, Reads
<1>5. CASE op[h] # "remove" /\ rows[uid[h]] = NoRow
  BY <1>1, <1>2, <1>3, <1>5 DEF Commit, Reads, Making, Live
<1>6. CASE op[h] # "remove" /\ rows[uid[h]] # NoRow
  BY <1>1, <1>2, <1>3, <1>6 DEF Commit, Reads
<1> QED
  BY <1>4, <1>5, <1>6

LEMMA CommitKeeps ==
    ASSUME TypeOK, Shapes, Core, NEW h \in Handlers, Commit(h)
    PROVE  /\ Core' /\ NamedKept
           /\ \A i \in Uids : rows[i] # NoRow => rows'[i] # NoRow /\ rows'[i].name = rows[i].name
           /\ \A i \in Uids : rows'[i] # NoRow => rows[i] # NoRow \/ i \in used
<1> DEFINE i == uid[h]
<1>0. NoUid \notin Uids /\ ReadsInv /\ NoRow \notin Row /\ used' = used
      /\ rows \in [Uids -> Row \cup {NoRow}]
  BY ConstantsAssumption DEF Core, Commit, TypeOK
<1>1. Others(h) /\ Released(h) /\ i \in Uids /\ op[h] # "none"
  BY CommitCases
<1>2. \A g \in Handlers \ {h} : SameRequest(g)
  BY <1>1 DEF Others, Same, SameRequest
<1>3. ~ Making(h)' /\ ~ Holds(h)'
  BY <1>1 DEF Released, Making, Holds
<1>4. CASE op[h] = "remove" /\ i \in Live /\ rows' = [rows EXCEPT ![i].deleted = TRUE]
  <2>1. \A r \in Row : /\ [r EXCEPT !.deleted = TRUE] \in Row
                       /\ [r EXCEPT !.deleted = TRUE].name = r.name
                       /\ [r EXCEPT !.deleted = TRUE].deleted
    BY DEF Row
  <2>2. /\ rows[i] \in Row /\ rows'[i] \in Row /\ rows'[i].name = rows[i].name
        /\ rows'[i].deleted /\ \A j \in Uids \ {i} : rows'[j] = rows[j]
    BY <1>0, <1>1, <1>4, <2>1 DEF Live
  <2>3. Live' = Live \ {i} /\ \A m : RowsOf(m)' = RowsOf(m) \ {i}
    BY <1>0, <2>2 DEF Live, RowsOf
  <2>4. \A g \in Handlers \ {h} : Making(g)' = Making(g) /\ Holds(g)' = Holds(g)
    BY <1>0, <1>2, <2>2 DEF Making, Holds, SameRequest, TypeOK
  <2>5. NamedKept
    <3> SUFFICES ASSUME NEW j, NEW m, Named(j, m) PROVE Named(j, m)'
      BY DEF NamedKept
    <3>1. j \in Uids
      BY DEF Named, TypeOK
    <3> QED
      BY <1>0, <1>2, <1>3, <2>2, <2>4, <3>1 DEF Named, SameRequest
  <2>6. ASSUME NEW g \in Handlers \ {h} PROVE Reads(g)'
    <3>1. (uid[g] # NoUid => Named(uid[g], name[g]))'
      BY <1>0, <1>2, <2>5, NamedStays DEF ReadsInv
    <3>2. op[g] \in {"remove", "password"} => uid[g] # i
      <4>1. rows[i].name = name[h]
        BY <1>0, <1>1, <1>4, <2>2 DEF ReadsInv, Reads, Named
      <4>2. op[g] \in {"remove", "password"} /\ uid[g] = i => name[g] = rows[i].name
        BY <1>0, <1>1, <2>2 DEF ReadsInv, Reads, Named
      <4> QED
        BY <1>4, <4>1, <4>2 DEF Core, Apart, Holds
    <3>3. op[g] = "create" \/ op[g] = "local" => uid[g] \in Uids
      BY DEF Shapes, Shape
    <3> QED
      BY <1>0, <1>2, <2>2, <2>3, <2>4, <3>1, <3>2, <3>3 DEF ReadsInv, Reads, SameRequest
  <2>7. Reads(h)'
    BY <1>1, <1>3 DEF Released, Reads
  <2>8. Apart'
    BY <1>2, <1>3, <2>4 DEF Core, Apart, SameRequest
  <2>9. Unique'
    BY <2>2, <2>3 DEF Core, Unique, Live
  <2> QED
    BY <1>0, <2>2, <2>5, <2>6, <2>7, <2>8, <2>9 DEF Core, ReadsInv
<1>5. CASE /\ Making(h) /\ rows[i] = NoRow
           /\ rows' = [rows EXCEPT ![i] = [name |-> name[h], deleted |-> FALSE,
                                           local |-> op[h] = "create"]]
  <2>1. /\ rows'[i].name = name[h] /\ ~ rows'[i].deleted /\ rows'[i] # NoRow
        /\ \A j \in Uids \ {i} : rows'[j] = rows[j]
    <3>1. rows'[i] \in Row
      BY <1>0, <1>1, <1>5 DEF Row, Shapes, Shape
    <3> QED
      BY <1>0, <1>1, <1>5, <3>1
  <2>2. Live' = Live \cup {i} /\ \A m : RowsOf(m)' = RowsOf(m) \cup {j \in {i} : m = name[h]}
    BY <1>0, <1>1, <1>5, <2>1 DEF Live, RowsOf
  <2>3. \A g \in Handlers \ {h} : Making(g) => name[g] # name[h] /\ uid[g] # i
    <3>1. Named(i, name[h])
      BY <1>0, <1>1 DEF ReadsInv, Reads
    <3> QED
      BY <1>5, <3>1, MakingIsHolding DEF Core, Apart, Named
  <2>4. \A g \in Handlers \ {h} : Making(g)' = Making(g) /\ Holds(g)' = Holds(g)
    BY <1>0, <1>2, <1>5, <2>1, <2>3 DEF Making, Holds, SameRequest, TypeOK
  <2>5. NamedKept
    <3> SUFFICES ASSUME NEW j, NEW m, Named(j, m) PROVE Named(j, m)'
      BY DEF NamedKept
    <3>1. j = i => m = name[h]
      BY <1>5 DEF Named
    <3>2. j \in Uids
      BY DEF Named, TypeOK
    <3> QED
      BY <1>0, <1>2, <1>3, <2>1, <2>4, <3>1, <3>2 DEF Named, SameRequest
  <2>6. ASSUME NEW g \in Handlers \ {h} PROVE Reads(g)'
    <3>1. (uid[g] # NoUid => Named(uid[g], name[g]))'
      BY <1>0, <1>2, <2>5, NamedStays DEF ReadsInv
    <3>2. op[g] = "create" => Making(g) /\ uid[g] \in Uids
      BY DEF Making, Shapes, Shape
    <3>3. op[g] = "local" => uid[g] \in Uids
      BY DEF Shapes, Shape
    <3>4. Making(g) => (RowsOf(name[g]))' = RowsOf(name[g])
      BY <1>2, <2>2, <2>3 DEF SameRequest
    <3> QED
      BY <1>0, <1>2, <2>1, <2>2, <2>3, <2>4, <3>1, <3>2, <3>3, <3>4
         DEF ReadsInv, Reads, SameRequest
  <2>7. Reads(h)'
    BY <1>1, <1>3 DEF Released, Reads
  <2>8. Apart'
    BY <1>2, <1>3, <2>4 DEF Core, Apart, SameRequest
  <2>9. Unique'
    <3>1. \A j \in Live : j # i /\ rows[j].name # name[h]
      BY <1>0, <1>5 DEF ReadsInv, Reads, RowsOf, Live
    <3> QED
      BY <2>1, <2>2, <3>1 DEF Core, Unique, Live
  <2>10. i \in used
    BY <1>0, <1>1 DEF ReadsInv, Reads, Named
  <2> QED
    BY <1>0, <2>1, <2>5, <2>6, <2>7, <2>8, <2>9, <2>10, <1>5 DEF Core, ReadsInv
<1>6. CASE rows' = rows
  <2>1. Quiet
    BY <1>0, <1>1, <1>2, <1>6 DEF Quiet
  <2> QED
    BY <1>6, <2>1, QuietKeeps
<1> QED
  BY <1>4, <1>5, <1>6, CommitCases

-----------------------------------------------------------------------------
\* Accounts, entries and sessions keep the names they have, and new ones are
\* of users who have the name already.
RowNames == \A i \in Uids : rows[i] # NoRow => rows'[i] # NoRow /\ rows'[i].name = rows[i].name

AccountsNamed == \A n \in Names : userpass'[n] # NoAccount =>
    \E i \in Uids : userpass'[n].uid = i /\ Named(i, n)

EntriesNamed == \A w \in Wraps : cubby'[w] # NoEntry =>
    \E i \in Uids, n \in Names : cubby'[w].uid = i /\ cubby'[w].name = n /\ Named(i, n)

SessionsNamed == \A s \in sessions' : s.uid # NoUid =>
    s.uid \in Uids /\ rows[s.uid] # NoRow /\ Named(s.vault, rows[s.uid].name)

LEMMA AgreeUnchanged ==
    ASSUME TypeOK, NamesAgree
    PROVE  /\ userpass' = userpass => AccountsNamed
           /\ cubby' = cubby => EntriesNamed
           /\ sessions' = sessions => SessionsNamed
  BY RowTypes DEF NamesAgree, AccountsNamed, EntriesNamed, SessionsNamed

LEMMA AgreeKept ==
    ASSUME NamedKept, RowNames, AccountsNamed, EntriesNamed, SessionsNamed
    PROVE  NamesAgree'
<1>1. ASSUME NEW n \in Names, userpass'[n] # NoAccount
      PROVE  (Named(userpass[n].uid, n))'
  BY <1>1 DEF AccountsNamed, NamedKept, Named
<1>2. ASSUME NEW w \in Wraps, cubby'[w] # NoEntry
      PROVE  (Named(cubby[w].uid, cubby[w].name))'
  <2>1. PICK i \in Uids, n \in Names :
          cubby'[w].uid = i /\ cubby'[w].name = n /\ Named(i, n)
    BY <1>2 DEF EntriesNamed
  <2>2. Named(i, n)'
    BY <2>1 DEF NamedKept
  <2> QED
    BY <2>1, <2>2 DEF Named
<1>3. ASSUME NEW s \in sessions', s.uid # NoUid
      PROVE  rows'[s.uid] # NoRow /\ (Named(s.vault, rows[s.uid].name))'
  BY <1>3 DEF SessionsNamed, NamedKept, Named, RowNames
<1> QED
  BY <1>1, <1>2, <1>3 DEF NamesAgree

\* Steps that only go on or answer.
LEMMA GoesQuietly ==
    ASSUME TypeOK, NEW h \in Handlers, rows' = rows, used' = used,
           Answer(h) \/ \E l \in PCs : Goto(h, l) /\ UNCHANGED request
    PROVE  Quiet
<1>1. CASE Answer(h)
  BY <1>1, AnswerStep, TypeParts DEF Quiet, Released, SameRequest, Others, Same
<1>2. CASE \E l \in PCs : Goto(h, l) /\ UNCHANGED request
  BY <1>2 DEF request, Quiet, SameRequest
<1> QED
  BY <1>1, <1>2

LEMMA StepKeeps ==
    ASSUME RowsInv, NEW h \in Handlers, Step(h)
    PROVE  Core' /\ Fresh' /\ NamesAgree'
<1> USE DEF PCs
<1>0. /\ TypeOK /\ Shapes /\ Shape(h) /\ Core /\ Fresh /\ NamesAgree /\ Reads(h)
      /\ NoUid \notin Uids
  BY ConstantsAssumption DEF RowsInv, Core, ReadsInv, Shapes
<1> DEFINE Plain == /\ rows' = rows /\ used' = used
                    /\ Answer(h) \/ \E l \in PCs : Goto(h, l) /\ UNCHANGED request
           News == AccountsNamed /\ EntriesNamed /\ SessionsNamed
<1>1. ASSUME Plain, News, \A i \in damaged' \ damaged : i \in used
      PROVE  Core' /\ Fresh' /\ NamesAgree'
  <2>1. Core' /\ NamedKept
    BY <1>0, <1>1, GoesQuietly, QuietKeeps
  <2>2. RowNames
    BY <1>1 DEF RowNames
  <2>3. Fresh'
    BY <1>0, <1>1 DEF Fresh
  <2> QED
    BY <1>1, <2>1, <2>2, <2>3, AgreeKept
<1>2. CASE \/ CreatePolicy(h) \/ PolicyHalfDone(h) \/ UndoPolicy(h) \/ RemovePolicy(h)
           \/ CheckCurrentPassword(h) \/ PolicyRefused(h) \/ CreateApprole(h) \/ GetSecretId(h)
  <2>1. Plain /\ userpass' = userpass /\ cubby' = cubby /\ sessions' = sessions
    BY <1>2 DEF CreatePolicy, PolicyHalfDone, UndoPolicy, RemovePolicy,
         CheckCurrentPassword, PolicyRefused, CreateApprole, GetSecretId, vault, request
  <2>2. \A i \in damaged' \ damaged : i \in used
    <3>1. PolicyHalfDone(h) => uid[h] \in used
      BY <1>0 DEF PolicyHalfDone, Shape, Reads, Named
    <3> QED
      BY <1>2, <3>1 DEF CreatePolicy, PolicyHalfDone, UndoPolicy, RemovePolicy, history,
         CheckCurrentPassword, PolicyRefused, CreateApprole, GetSecretId
  <2> QED
    BY <1>0, <1>1, <2>1, <2>2, AgreeUnchanged
<1>3. CASE \/ CreateVaultUser(h) \/ AccountHalfDone(h) \/ RemoveVaultUser(h)
           \/ ChangePassword(h)
  <2>2. name[h] \in Names /\ uid[h] \in Uids /\ Named(uid[h], name[h])
    BY <1>0, <1>3 DEF CreateVaultUser, AccountHalfDone, RemoveVaultUser, ChangePassword,
         Shape, Reads, TypeOK, Ops
  <2>1. Plain /\ cubby' = cubby /\ sessions' = sessions /\ damaged' \subseteq damaged \cup {uid[h]}
    BY <1>3 DEF CreateVaultUser, AccountHalfDone, RemoveVaultUser, ChangePassword, request,
         history
  <2>4. \A i \in damaged' \ damaged : i \in used
    BY <2>1, <2>2 DEF Named
  <2>3. AccountsNamed
    <3>1. /\ \A n \in Names \ {name[h]} : userpass'[n] = userpass[n]
          /\ \/ userpass'[name[h]] = NoAccount
             \/ userpass'[name[h]].uid = uid[h]
             \/ /\ userpass[name[h]] # NoAccount
                /\ userpass'[name[h]].uid = userpass[name[h]].uid
      <4>1. CASE CreateVaultUser(h)
        BY <2>2, <4>1 DEF CreateVaultUser, RowsInv, TypeOK
      <4>4. CASE AccountHalfDone(h)
        BY <2>2, <4>4 DEF AccountHalfDone, RowsInv, TypeOK
      <4>2. CASE RemoveVaultUser(h)
        BY <2>2, <4>2 DEF RemoveVaultUser, RowsInv, TypeOK
      <4>3. CASE ChangePassword(h)
        <5>1. CASE userpass[name[h]] = NoAccount
          BY <2>2, <4>3, <5>1 DEF ChangePassword, RowsInv, TypeOK
        <5>2. CASE userpass[name[h]] # NoAccount
          <6>1. userpass[name[h]] \in Account
            BY <1>0, <2>2, <5>2 DEF TypeOK
          <6>2. userpass' = [userpass EXCEPT ![name[h]].password = password[h]]
            BY <4>3, <5>2 DEF ChangePassword
          <6> QED
            BY <1>0, <2>2, <5>2, <6>1, <6>2 DEF TypeOK, Account
        <5> QED
          BY <5>1, <5>2
      <4> QED
        BY <1>3, <4>1, <4>2, <4>3, <4>4
    <3>2. \A n \in Names : userpass[n] # NoAccount =>
            userpass[n].uid \in Uids /\ Named(userpass[n].uid, n)
      BY <1>0, RowTypes DEF NamesAgree
    <3> QED
      BY <2>2, <3>1, <3>2 DEF AccountsNamed
  <2> QED
    BY <1>0, <1>1, <2>1, <2>3, <2>4, AgreeUnchanged
<1>4. CASE Commit(h)
  <2>1. Core' /\ NamedKept /\ RowNames
    BY <1>0, <1>4, CommitKeeps DEF RowNames
  <2>2. Fresh'
    BY <1>0, <1>4, CommitKeeps DEF Fresh, Commit
  <2> QED
    BY <1>0, <1>4, <2>1, <2>2, AgreeUnchanged, AgreeKept DEF Commit, vault
<1>5. CASE StoreEppnDb(h)
  <2>1. /\ UNCHANGED <<rows, vault, sessions, damaged>> /\ used \subseteq used'
    BY <1>5 DEF StoreEppnDb, history
  <2>2. Core' /\ NamedKept
    <3>1. CASE Answer(h)
      <4>1. \A g \in Handlers : SameRequest(g) \/ Released(g)
        BY <1>0, <3>1, AnswerStep, TypeParts DEF Released, SameRequest, Others, Same
      <4> QED
        BY <1>0, <2>1, <4>1, QuietKeeps DEF Quiet
    <3> QED
      BY <1>0, <1>5, <3>1, InsertKeeps
  <2>3. RowNames /\ Fresh'
    BY <1>0, <2>1 DEF RowNames, Fresh
  <2> QED
    BY <1>0, <2>1, <2>2, <2>3, AgreeUnchanged, AgreeKept DEF vault
<1>6. CASE GenerateSecretId(h)
  <2>1. UNCHANGED <<rows, used, userpass, cubby, sessions, damaged, op, name, uid>>
    BY <1>6 DEF GenerateSecretId, history
  <2>2. Core' /\ NamedKept
    BY <1>0, <2>1, QuietKeeps DEF Quiet, SameRequest
  <2>3. RowNames /\ Fresh'
    BY <1>0, <2>1 DEF RowNames, Fresh
  <2> QED
    BY <1>0, <2>1, <2>2, <2>3, AgreeUnchanged, AgreeKept
<1>7. CASE StoreApproleInfo(h) \/ RemoveShibbolethParams(h)
  <2>1. Plain /\ userpass' = userpass /\ sessions' = sessions /\ damaged' = damaged
    BY <1>7 DEF StoreApproleInfo, RemoveShibbolethParams, request, history
  <2>2. /\ name[h] \in Names /\ uid[h] \in Uids /\ Named(uid[h], name[h])
        /\ wrap[h] \in Wraps
    BY <1>0, <1>7 DEF StoreApproleInfo, RemoveShibbolethParams, Shape, Reads, TypeOK, Ops
  <2>3. EntriesNamed
    <3>1. /\ \A w \in Wraps \ {wrap[h]} : cubby'[w] = cubby[w]
          /\ \/ cubby'[wrap[h]] \in {NoEntry, cubby[wrap[h]]}
             \/ cubby'[wrap[h]].uid = uid[h] /\ cubby'[wrap[h]].name = name[h]
      BY <1>0, <1>7, <2>2 DEF StoreApproleInfo, RemoveShibbolethParams, TypeOK
    <3>2. \A w \in Wraps : cubby[w] # NoEntry =>
            /\ cubby[w].uid \in Uids /\ cubby[w].name \in Names
            /\ Named(cubby[w].uid, cubby[w].name)
      BY <1>0, RowTypes DEF NamesAgree
    <3> QED
      BY <2>2, <3>1, <3>2 DEF EntriesNamed
  <2> QED
    BY <1>0, <1>1, <2>1, <2>3, AgreeUnchanged
<1>8. CASE VaultLogin(h) \/ Login(h)
  <2>1. Plain /\ userpass' = userpass /\ cubby' = cubby /\ damaged' = damaged
    BY <1>8 DEF VaultLogin, Login, vault, history
  <2>2. /\ name[h] \in Names /\ uid[h] \in Uids /\ Named(uid[h], name[h])
        /\ Login(h) => op[h] = "local"
    BY <1>0, <1>8 DEF VaultLogin, Login, Shape, Reads, TypeOK, Ops
  <2>3. ASSUME NEW s \in sessions', s \notin sessions, s.uid # NoUid
        PROVE  s.uid \in Uids /\ rows[s.uid] # NoRow /\ Named(s.vault, rows[s.uid].name)
    <3>1. CASE VaultLogin(h)
      <4>1. PICK i \in IF RowsOf(name[h]) = {} THEN {NoUid} ELSE RowsOf(name[h]) :
              sessions' = sessions \cup {[uid |-> i, vault |-> uid[h], wrap |-> wrap[h]]}
        BY <3>1 DEF VaultLogin
      <4>2. s.uid = i /\ s.vault = uid[h]
        BY <2>3, <4>1
      <4>3. i \in RowsOf(name[h])
        BY <2>3, <4>1, <4>2
      <4>4. i \in Uids /\ rows[i] # NoRow /\ rows[i].name = name[h]
        BY <1>0, <4>3, RowTypes DEF Live
      <4> QED
        BY <2>2, <4>2, <4>4
    <3>2. CASE Login(h)
      <4>1. PICK a \in {userpass[name[h]]} \ {NoAccount} :
              s = [uid |-> uid[h], vault |-> a.uid, wrap |-> NoWrap]
        BY <2>3, <3>2 DEF Login
      <4>2. Named(userpass[name[h]].uid, name[h])
        BY <1>0, <2>2, <4>1 DEF NamesAgree
      <4>3. rows[uid[h]] # NoRow /\ rows[uid[h]].name = name[h]
        BY <1>0, <2>2, <3>2 DEF Reads, Named
      <4> QED
        BY <2>2, <4>1, <4>2, <4>3
    <3> QED
      BY <1>8, <3>1, <3>2
  <2>4. SessionsNamed
    BY <1>0, <2>3, RowTypes DEF SessionsNamed, NamesAgree
  <2> QED
    BY <1>0, <1>1, <2>1, <2>4, AgreeUnchanged
<1> QED
  BY <1>2, <1>3, <1>4, <1>5, <1>6, <1>7, <1>8 DEF Step

LEMMA FailKeeps ==
    ASSUME RowsInv, NEW h \in Handlers, Fail(h) PROVE Core' /\ Fresh' /\ NamesAgree'
<1>0. TypeOK /\ Core /\ Fresh /\ NamesAgree /\ Shape(h) /\ Reads(h)
  BY DEF RowsInv, Core, ReadsInv
<1>1. Core' /\ NamedKept
  BY <1>0, GoesQuietly, QuietKeeps DEF Fail
<1>2. RowNames
  BY DEF Fail, RowNames
<1>3. uid[h] # NoUid => uid[h] \in used
  BY <1>0 DEF Reads, Named
<1>4. Fresh'
  BY <1>0, <1>3, ConstantsAssumption DEF Fail, Fresh
<1> QED
  BY <1>0, <1>1, <1>2, <1>4, AgreeUnchanged, AgreeKept DEF Fail, vault

LEMMA RowsNext == RowsInv /\ [Next]_vars => RowsInv'
<1> SUFFICES ASSUME RowsInv, [Next]_vars PROVE RowsInv'
  OBVIOUS
<1>0. TypeOK /\ Core /\ Fresh /\ NamesAgree /\ Shapes /\ \A h \in Handlers : Reads(h)
  BY DEF RowsInv, Core, ReadsInv, Shapes
<1>1. TypeOK' /\ Shapes'
  BY <1>0, TypeNext
<1>2. ASSUME NEW h \in Handlers, Request(h) PROVE Core' /\ Fresh' /\ NamesAgree'
  <2>1. Core' /\ NamedKept
    BY <1>0, <1>2, RequestKeeps
  <2>2. RowNames /\ Fresh' /\ userpass' = userpass /\ cubby' = cubby /\ sessions' = sessions
    BY <1>0, <1>2, Beginnings DEF Begins, RowNames, Fresh, vault, history
  <2> QED
    BY <1>0, <2>1, <2>2, AgreeUnchanged, AgreeKept
<1>3. ASSUME ListCubbyhole \/ RemoveEntry \/ Expire \/ UNCHANGED vars
      PROVE  Core' /\ Fresh' /\ NamesAgree'
  <2>1. /\ UNCHANGED <<rows, used, userpass, sessions, damaged, request, pc>>
        /\ \A w \in Wraps : cubby'[w] \in {NoEntry, cubby[w]}
    BY <1>0, <1>3, CleanUp DEF ListCubbyhole, RemoveEntry, Expire, vars, vault, history, TypeOK
  <2>2. Core' /\ NamedKept
    BY <1>0, <2>1, QuietKeeps DEF Quiet, SameRequest, request
  <2>3. EntriesNamed
    BY <1>0, <2>1, RowTypes DEF NamesAgree, EntriesNamed
  <2>4. RowNames /\ Fresh'
    BY <1>0, <2>1 DEF RowNames, Fresh
  <2> QED
    BY <1>0, <2>1, <2>2, <2>3, <2>4, AgreeUnchanged, AgreeKept
<1>4. Core' /\ Fresh' /\ NamesAgree'
  BY <1>2, <1>3, StepKeeps, FailKeeps DEF Next
<1> QED
  BY <1>1, <1>4 DEF RowsInv, Core, ReadsInv, Shapes

LEMMA RowsInit == Init => RowsInv
<1> SUFFICES ASSUME Init PROVE RowsInv
  OBVIOUS
<1>1. TypeOK
  BY DEF Init, TypeOK, PCs, Ops
<1>2. \A h \in Handlers : Shape(h) /\ Reads(h) /\ ~ Holds(h)
  BY DEF Init, Shape, Reads, Making, Holds
<1>3. Apart /\ Fresh /\ Unique /\ NamesAgree
  BY <1>2, ConstantsAssumption DEF Init, Apart, Fresh, Unique, NamesAgree, Live
<1> QED
  BY <1>1, <1>2, <1>3 DEF RowsInv

-----------------------------------------------------------------------------
\* Users in Vault.  What a step of h leaves to the others: it changes nothing
\* but what belongs to its user, whose name it keeps from others.
Within(h) ==
    /\ Others(h)
    /\ roles \subseteq roles' /\ refused \subseteq refused' /\ damaged \subseteq damaged'
    /\ \A i \in Uids \ {uid[h]} : /\ i \in policies' <=> i \in policies
                                  /\ rows'[i] = rows[i] /\ told'[i] = told[i]
    /\ \A n \in Names \ {name[h]} : userpass'[n] = userpass[n]
    /\ userpass'[name[h]] # NoAccount =>
         \/ userpass'[name[h]].uid = uid[h]
         \/ /\ userpass[name[h]] # NoAccount
            /\ userpass'[name[h]].uid = userpass[name[h]].uid

Outside(h) ==
    /\ Others(h) /\ UNCHANGED <<rows, policies, userpass, told>>
    /\ roles \subseteq roles' /\ refused \subseteq refused' /\ damaged \subseteq damaged'

LEMMA Distinct ==
    ASSUME RowsInv, NEW g \in Handlers, NEW h \in Handlers, Holds(g), Holds(h),
           uid[g] = uid[h]
    PROVE  g = h
<1>1. uid[g] # NoUid /\ Reads(g) /\ Reads(h)
  BY ConstantsAssumption DEF RowsInv, Holds, Making, Shape
<1>2. name[g] = name[h]
  BY <1>1 DEF Reads, Named, Holds, Live
<1> QED
  BY <1>2 DEF RowsInv, Apart

LEMMA HolderOf ==
    ASSUME RowsInv, NEW h \in Handlers, Holds(h)
    PROVE  /\ uid[h] \in Uids /\ name[h] \in Names
           /\ \A i \in Live : rows[i].name = name[h] => i = uid[h] /\ ~ Making(h)
<1>1. uid[h] \in Uids /\ name[h] \in Names /\ Reads(h) /\ uid[h] # NoUid
  BY ConstantsAssumption DEF RowsInv, Holds, Making, Shape, TypeOK
<1>2. ASSUME NEW i \in Live, rows[i].name = name[h] PROVE i = uid[h] /\ ~ Making(h)
  <2>1. ~ Making(h)
    BY <1>1, <1>2 DEF Reads, RowsOf
  <2>2. uid[h] \in Live /\ rows[uid[h]].name = name[h]
    BY <1>1, <2>1 DEF Holds, Reads, Named, Live
  <2> QED
    BY <1>2, <2>1, <2>2 DEF RowsInv, Unique
<1> QED
  BY <1>1, <1>2

LEMMA WithinKeeps ==
    ASSUME RowsInv, VaultInv, NEW h \in Handlers, Holds(h), Within(h), RowNames
    PROVE  /\ \A g \in Handlers \ {h} : Done(g)'
           /\ \A i \in Uids \ {uid[h]} : Usable(i)' /\ Cleared(i)'
<1>0. uid[h] \in Uids /\ name[h] \in Names
  BY HolderOf
<1>1. \A i \in Uids \ {uid[h]} : NoAccountOf(i) => NoAccountOf(i)'
  BY DEF Within, NoAccountOf
<1>2. ASSUME NEW g \in Handlers \ {h} PROVE Done(g)'
  <2>1. Done(g) /\ Same(g) /\ Shape(g) /\ Reads(g)
    BY DEF Within, Others, VaultInv, RowsInv
  <2>2. CASE ~ Holds(g)
    <3>1. op[g] # "create" /\ op[g] # "remove" /\ op[g] # "password" /\ pc[g] # "policy"
      BY <2>1, <2>2 DEF Holds, Making, Done
    <3>2. ~ Making(g)'
      <4>1. uid[g] \in Uids \cup {NoUid}
        BY DEF RowsInv, TypeOK
      <4> QED
        BY <2>1, <2>2, <4>1 DEF Holds, Making, Same, RowNames
    <3> QED
      BY <2>1, <3>1, <3>2 DEF Done, Same
  <2>3. CASE Holds(g)
    <3>1. uid[g] # uid[h] /\ name[g] # name[h] /\ uid[g] \in Uids /\ name[g] \in Names
      BY <2>3, Distinct, HolderOf DEF RowsInv, Apart
    <3>2. Making(g)' = Making(g)
      BY <2>1, <3>1 DEF Making, Same, Within
    <3>3. NoAccountOf(uid[g]) => (NoAccountOf(uid[g]))'
      BY <1>1, <2>1, <3>1 DEF Same, NoAccountOf
    <3>4. userpass'[name[g]] = userpass[name[g]] /\ rows'[uid[g]] = rows[uid[g]]
          /\ (uid[g] \in policies' <=> uid[g] \in policies)
      BY <3>1 DEF Within
    <3> QED
      BY <2>1, <3>1, <3>2, <3>3, <3>4 DEF Done, Same, Within
  <2> QED
    BY <2>2, <2>3
<1>3. ASSUME NEW i \in Uids \ {uid[h]} PROVE Usable(i)'
  <2> SUFFICES ASSUME i \in Live' \ damaged', Untouched(i)' PROVE Intact(i)'
    BY DEF Usable
  <2>1. rows'[i] = rows[i] /\ i \in Live \ damaged
    BY DEF Within, Live
  <2>2. Untouched(i)
    BY <2>1 DEF Untouched, Within, Others, Same
  <2>3. Intact(i)
    BY <2>1, <2>2 DEF VaultInv, Usable
  <2>4. rows[i].name \in Names /\ rows[i].name # name[h]
    BY <2>1, HolderOf, RowTypes DEF RowsInv
  <2> QED
    BY <2>1, <2>3, <2>4 DEF Intact, Within
<1>4. ASSUME NEW i \in Uids \ {uid[h]} PROVE Cleared(i)'
  <2> SUFFICES ASSUME i \notin Live' \cup damaged',
                      \A g \in Handlers : Making(g)' => uid'[g] # i
               PROVE  (i \notin policies /\ NoAccountOf(i))'
    BY DEF Cleared
  <2>1. rows'[i] = rows[i] /\ i \notin Live \cup damaged
    BY DEF Within, Live
  <2>2. \A g \in Handlers : Making(g) => uid[g] # i
    BY <2>1 DEF Within, Others, Same, Making
  <2> QED
    BY <1>1, <2>1, <2>2 DEF VaultInv, Cleared, Within
<1> QED
  BY <1>2, <1>3, <1>4

\* A step that is about no user's account, by a request that keeps nobody away.
LEMMA OutsideKeeps ==
    ASSUME RowsInv, VaultInv, NEW h \in Handlers, Outside(h), ~ Holds(h),
           op'[h] = "none" \/ (op'[h] = op[h] /\ uid'[h] = uid[h]), pc'[h] # "policy"
    PROVE  VaultInv'
<1>1. ~ Holds(h)' /\ ~ Making(h)' /\ op'[h] \notin {"create", "remove", "password"}
  BY DEF Holds, Making, Outside
<1>2. Done(h)'
  BY <1>1 DEF Done
<1>3. \A i \in Uids : NoAccountOf(i)' = NoAccountOf(i)
  BY DEF NoAccountOf, Outside
<1>4. ASSUME NEW g \in Handlers \ {h} PROVE Done(g)' /\ Making(g)' = Making(g)
  <2>1. Done(g) /\ Same(g) /\ Making(g)' = Making(g)
    BY DEF Outside, Others, VaultInv, Making, Same
  <2>2. (NoAccountOf(uid[g]))' = NoAccountOf(uid[g])
    BY <2>1 DEF NoAccountOf, Outside, Same
  <2> QED
    BY <2>1, <2>2 DEF Done, Same, Outside
<1>5. ASSUME NEW i \in Uids PROVE Usable(i)'
  <2> SUFFICES ASSUME i \in Live' \ damaged', Untouched(i)' PROVE Intact(i)'
    BY DEF Usable
  <2>1. i \in Live \ damaged /\ Untouched(i)
    BY DEF Outside, Live, Untouched, Others, Same, Holds
  <2> QED
    BY <2>1 DEF VaultInv, Usable, Intact, Outside
<1>6. ASSUME NEW i \in Uids PROVE Cleared(i)'
  <2> SUFFICES ASSUME i \notin Live' \cup damaged',
                      \A g \in Handlers : Making(g)' => uid'[g] # i
               PROVE  (i \notin policies /\ NoAccountOf(i))'
    BY DEF Cleared
  <2>1. i \notin Live \cup damaged
    BY DEF Outside, Live
  <2>2. \A g \in Handlers : Making(g) => uid[g] # i
    BY <1>4 DEF Outside, Others, Same, Holds
  <2> QED
    BY <1>3, <2>1, <2>2 DEF VaultInv, Cleared, Outside
<1> QED
  BY <1>2, <1>4, <1>5, <1>6 DEF VaultInv

\* What a holder has to see to for itself.
LEMMA HolderGoes ==
    ASSUME RowsInv, VaultInv, NEW h \in Handlers, Holds(h), Within(h), RowNames,
           Done(h)', NEW i \in Uids, i = uid[h], Usable(i)', Cleared(i)'
    PROVE  VaultInv'
<1>1. \A g \in Handlers \ {h} : Done(g)'
  BY WithinKeeps
<1>2. \A j \in Uids : Usable(j)' /\ Cleared(j)'
  BY WithinKeeps
<1> QED
  BY <1>1, <1>2 DEF VaultInv

\* The user whose row is still to be inserted is neither.
LEMMA MakingGoes ==
    ASSUME RowsInv, VaultInv, NEW h \in Handlers, Making(h), Within(h), RowNames,
           rows' = rows, Making(h)', uid'[h] = uid[h], Done(h)'
    PROVE  VaultInv'
<1>1. uid[h] \in Uids /\ rows[uid[h]] = NoRow
  BY HolderOf, MakingIsHolding DEF Making, RowsInv, Reads
<1>2. Usable(uid[h])' /\ Cleared(uid[h])'
  BY <1>1 DEF Usable, Cleared, Live
<1> QED
  BY <1>1, <1>2, HolderGoes, MakingIsHolding

\* A user whom its holder has not begun to change has all it needs.
LEMMA UntouchedIntact ==
    ASSUME VaultInv, NEW h \in Handlers, RowsInv, Holds(h), ~ Making(h), uid[h] \notin damaged,
           op[h] = "remove" => pc[h] = "unuserpass",
           op[h] = "password" /\ rows[uid[h]].local => pc[h] # "commit"
    PROVE  uid[h] \in Live /\ Intact(uid[h])
<1>1. uid[h] \in Live /\ uid[h] \in Uids
  BY HolderOf DEF RowsInv, Reads, Holds
<1>2. Untouched(uid[h])
  BY Distinct DEF Untouched, Holds
<1> QED
  BY <1>1, <1>2 DEF VaultInv, Usable

LEMMA VaultCreates ==
    ASSUME RowsInv, VaultInv, NEW h \in Handlers,
           \/ CreatePolicy(h) \/ PolicyHalfDone(h) \/ CreateVaultUser(h)
           \/ AccountHalfDone(h) \/ UndoPolicy(h) \/ PolicyRefused(h)
    PROVE  VaultInv'
<1> USE DEF PCs
<1>0. /\ Done(h) /\ Shape(h) /\ TypeOK /\ RequestType /\ op[h] \in Ops
      /\ NoUid \notin Uids
  BY TypeParts, ConstantsAssumption DEF VaultInv, RowsInv, TypeOK
<1>1. Making(h) /\ Holds(h) /\ uid[h] \in Uids /\ name[h] \in Names /\ rows' = rows
  <2>1. Making(h)
    BY <1>0 DEF CreatePolicy, PolicyHalfDone, CreateVaultUser, AccountHalfDone, UndoPolicy,
         PolicyRefused, Done, Shape, Ops, Making
  <2> QED
    BY <2>1, HolderOf, MakingIsHolding DEF CreatePolicy, PolicyHalfDone, CreateVaultUser,
       AccountHalfDone, UndoPolicy, PolicyRefused
<1>2. RowNames
  BY <1>1 DEF RowNames
<1>3. CASE CreatePolicy(h)
  <2> DEFINE l == IF op[h] = "create" THEN "userpass" ELSE "role"
  <2>1. Goto(h, l) /\ UNCHANGED request /\ l \in PCs
    BY <1>3 DEF CreatePolicy
  <2>2. /\ Others(h) /\ pc'[h] = l /\ op'[h] = op[h] /\ uid'[h] = uid[h]
        /\ name'[h] = name[h]
    BY <1>0, <2>1, GotoStep
  <2>3. Within(h)
    BY <1>0, <1>3, <2>2 DEF CreatePolicy, Within, history, TypeOK
  <2>4. Making(h)'
    BY <1>1, <2>2 DEF Making
  <2>5. (NoAccountOf(uid[h]))'
    BY <1>0, <1>1, <1>3, <2>2 DEF CreatePolicy, Done, NoAccountOf
  <2>6. Done(h)'
    BY <1>1, <1>3, <2>1, <2>2, <2>5 DEF Done, CreatePolicy, Making
  <2> QED
    BY <1>1, <1>2, <2>2, <2>3, <2>4, <2>6, MakingGoes
<1>4. CASE PolicyHalfDone(h)
  <2>1. Others(h) /\ op'[h] = "none" /\ pc'[h] = "idle"
    BY <1>0, <1>4, AnswerStep DEF PolicyHalfDone
  <2>2. Within(h) /\ uid[h] \in damaged'
    BY <1>0, <1>4, <2>1 DEF PolicyHalfDone, Within
  <2>3. Done(h)'
    BY <2>1 DEF Done, Making
  <2>4. ASSUME NEW j \in Uids, j = uid[h] PROVE Usable(j)' /\ Cleared(j)'
    BY <2>2, <2>4 DEF Usable, Cleared
  <2> QED
    BY <1>1, <1>2, <2>2, <2>3, <2>4, HolderGoes
<1>5. CASE CreateVaultUser(h)
  <2>1. /\ Others(h) /\ pc'[h] = "commit" /\ op'[h] = op[h] /\ uid'[h] = uid[h]
        /\ name'[h] = name[h] /\ password'[h] = password[h] /\ op[h] = "create"
    BY <1>0, <1>5, GotoStep DEF CreateVaultUser, Shape, Ops
  <2>2. userpass'[name[h]] = [uid |-> uid[h], password |-> password[h]]
    BY <1>0, <1>1, <1>5 DEF CreateVaultUser, TypeOK
  <2>3. Within(h)
    BY <1>0, <1>5, <2>1, <2>2 DEF CreateVaultUser, Within, history, TypeOK
  <2>4. Making(h)'
    BY <2>1 DEF Making
  <2>5. Done(h)'
    BY <1>0, <1>5, <2>1, <2>2 DEF Done, CreateVaultUser, Making
  <2> QED
    BY <1>1, <1>2, <2>1, <2>3, <2>4, <2>5, MakingGoes
<1>8. CASE AccountHalfDone(h)
  <2>1. /\ Others(h) /\ pc'[h] = "unpolicy" /\ op'[h] = op[h] /\ uid'[h] = uid[h]
        /\ name'[h] = name[h] /\ op[h] = "create" /\ uid[h] \in damaged'
    BY <1>0, <1>8, GotoStep DEF AccountHalfDone, Shape, Ops
  <2>2. userpass'[name[h]] = [uid |-> uid[h], password |-> password[h]]
    BY <1>0, <1>1, <1>8 DEF AccountHalfDone, TypeOK
  <2>3. Within(h)
    BY <1>0, <1>8, <2>1, <2>2 DEF AccountHalfDone, Within, TypeOK
  <2>4. Making(h)'
    BY <2>1 DEF Making
  <2>5. Done(h)'
    BY <1>0, <1>8, <2>1, <2>2 DEF Done, AccountHalfDone, Making
  <2> QED
    BY <1>1, <1>2, <2>1, <2>3, <2>4, <2>5, MakingGoes
<1>6. CASE UndoPolicy(h)
  <2>1. /\ Others(h) /\ pc'[h] = "unpolicy" /\ op'[h] = op[h] /\ uid'[h] = uid[h]
        /\ op[h] = "create"
    BY <1>0, <1>6, GotoStep DEF UndoPolicy, Shape, Ops
  <2>2. Within(h)
    BY <1>0, <1>6, <2>1 DEF UndoPolicy, Within, vault, history, TypeOK
  <2>3. Making(h)'
    BY <2>1 DEF Making
  <2>4. (NoAccountOf(uid[h]))'
    BY <1>0, <1>1, <1>6, <2>1 DEF UndoPolicy, Done, NoAccountOf, vault
  <2>5. Done(h)'
    BY <2>1, <2>4 DEF Done
  <2> QED
    BY <1>1, <1>2, <2>1, <2>2, <2>3, <2>5, MakingGoes
<1>7. CASE PolicyRefused(h)
  <2>1. /\ Others(h) /\ pc'[h] = "role" /\ op'[h] = op[h] /\ uid'[h] = uid[h]
        /\ op[h] = "frontend"
    BY <1>0, <1>7, GotoStep DEF PolicyRefused
  <2>2. Within(h) /\ uid[h] \in refused'
    BY <1>0, <1>7, <2>1 DEF PolicyRefused, Within, vault, TypeOK
  <2>3. Making(h)'
    BY <1>1, <2>1 DEF Making
  <2>4. (NoAccountOf(uid[h]))'
    BY <1>0, <1>1, <1>7, <2>1 DEF PolicyRefused, Done, NoAccountOf, vault
  <2>5. Done(h)'
    BY <2>1, <2>2, <2>4 DEF Done
  <2> QED
    BY <1>1, <1>2, <2>1, <2>2, <2>3, <2>5, MakingGoes
<1> QED
  BY <1>3, <1>4, <1>5, <1>6, <1>7, <1>8

LEMMA VaultRemoves ==
    ASSUME RowsInv, VaultInv, NEW h \in Handlers, RemoveVaultUser(h) \/ RemovePolicy(h)
    PROVE  VaultInv'
<1> USE DEF PCs
<1>0. /\ Done(h) /\ Shape(h) /\ TypeOK /\ RequestType /\ op[h] \in Ops /\ Reads(h)
      /\ NoUid \notin Uids
  BY TypeParts, ConstantsAssumption DEF VaultInv, RowsInv, TypeOK
<1>1. /\ Holds(h) /\ uid[h] \in Uids /\ name[h] \in Names /\ rows' = rows
      /\ op[h] \in {"remove", "create"}
  <2>1. op[h] \in {"remove", "create"} /\ Holds(h)
    BY <1>0 DEF RemoveVaultUser, RemovePolicy, Shape, Ops, Holds, Making
  <2> QED
    BY <2>1, HolderOf DEF RemoveVaultUser, RemovePolicy
<1>2. RowNames
  BY <1>1 DEF RowNames
<1>3. CASE RemoveVaultUser(h)
  <2>1. /\ Others(h) /\ pc'[h] = "unpolicy" /\ op'[h] = op[h] /\ uid'[h] = uid[h]
        /\ op[h] = "remove"
    BY <1>0, <1>3, GotoStep DEF RemoveVaultUser, Shape, Ops
  <2>2. /\ userpass'[name[h]] = NoAccount
        /\ \A n \in Names \ {name[h]} : userpass'[n] = userpass[n]
    BY <1>0, <1>1, <1>3 DEF RemoveVaultUser, TypeOK
  <2>3. Within(h)
    BY <1>0, <1>3, <2>1, <2>2 DEF RemoveVaultUser, Within, history
  <2>4. ASSUME NEW n \in Names, userpass'[n] # NoAccount PROVE userpass'[n].uid # uid[h]
    <3>1. Named(userpass[n].uid, n) /\ n # name[h] /\ userpass'[n] = userpass[n]
      BY <2>2, <2>4 DEF RowsInv, NamesAgree
    <3>2. rows[uid[h]] # NoRow /\ rows[uid[h]].name = name[h]
      BY <1>0, <1>1, <2>1 DEF Reads, Named, Live
    <3> QED
      BY <3>1, <3>2 DEF Named
  <2>5. Done(h)' /\ ~ Making(h)'
    BY <2>1, <2>4 DEF Done, NoAccountOf, Making
  <2>6. ASSUME NEW i \in Uids, i = uid[h] PROVE Usable(i)' /\ Cleared(i)'
    <3>1. i \in Live'
      BY <1>0, <1>1, <2>1, <2>6 DEF Reads, Live
    <3> QED
      BY <2>1, <2>6, <3>1 DEF Usable, Untouched, Cleared
  <2> QED
    BY <1>1, <1>2, <2>3, <2>5, <2>6, HolderGoes
<1>4. CASE RemovePolicy(h) /\ op[h] = "remove"
  <2>1. /\ Others(h) /\ pc'[h] = "commit" /\ op'[h] = op[h] /\ uid'[h] = uid[h]
    BY <1>0, <1>4, GotoStep DEF RemovePolicy
  <2>2. Within(h) /\ uid[h] \notin policies' /\ userpass' = userpass
    BY <1>0, <1>4, <2>1 DEF RemovePolicy, Within, history
  <2>3. (NoAccountOf(uid[h]))'
    BY <1>0, <1>4, <2>1, <2>2 DEF Done, NoAccountOf, RemovePolicy
  <2>4. Done(h)'
    BY <1>4, <2>1, <2>2, <2>3 DEF Done, Making
  <2>5. ASSUME NEW i \in Uids, i = uid[h] PROVE Usable(i)' /\ Cleared(i)'
    <3>1. i \in Live'
      BY <1>0, <1>1, <1>4, <2>1, <2>5 DEF Reads, Live
    <3> QED
      BY <1>4, <2>1, <2>5, <3>1 DEF Usable, Untouched, Cleared
  <2> QED
    BY <1>1, <1>2, <2>2, <2>4, <2>5, HolderGoes
<1>5. CASE RemovePolicy(h) /\ op[h] = "create"
  <2>1. Others(h) /\ op'[h] = "none" /\ pc'[h] = "idle"
    BY <1>0, <1>5, AnswerStep DEF RemovePolicy
  <2>2. Within(h) /\ uid[h] \notin policies' /\ userpass' = userpass
    BY <1>0, <1>5, <2>1 DEF RemovePolicy, Within, history
  <2>3. Done(h)'
    BY <2>1 DEF Done, Making
  <2>4. ASSUME NEW i \in Uids, i = uid[h] PROVE Usable(i)' /\ Cleared(i)'
    <3>1. i \notin Live'
      BY <1>0, <1>1, <1>5, <2>4 DEF Reads, Live
    <3>2. CASE i \in damaged
      <4>1. i \in damaged'
        BY <1>5, <3>2 DEF RemovePolicy, history
      <4> QED
        BY <3>1, <4>1 DEF Usable, Cleared
    <3>3. CASE i \notin damaged
      <4>1. NoAccountOf(i)
        BY <1>0, <1>5, <2>4, <3>3 DEF Done, Making, RemovePolicy
      <4>2. NoAccountOf(i)'
        BY <2>2, <4>1 DEF NoAccountOf
      <4> QED
        BY <2>2, <2>4, <3>1, <4>2 DEF Usable, Cleared
    <3> QED
      BY <3>2, <3>3
  <2> QED
    BY <1>1, <1>2, <2>2, <2>3, <2>4, HolderGoes
<1> QED
  BY <1>1, <1>3, <1>4, <1>5

LEMMA VaultPassword ==
    ASSUME RowsInv, VaultInv, NEW h \in Handlers, CheckCurrentPassword(h) \/ ChangePassword(h)
    PROVE  VaultInv'
<1> USE DEF PCs
<1>0. /\ Done(h) /\ Shape(h) /\ TypeOK /\ RequestType /\ op[h] \in Ops /\ Reads(h)
      /\ NoUid \notin Uids
  BY TypeParts, ConstantsAssumption DEF VaultInv, RowsInv, TypeOK
<1>1. /\ Holds(h) /\ uid[h] \in Uids /\ name[h] \in Names /\ rows' = rows
      /\ op[h] = "password" /\ ~ Making(h) /\ uid[h] \in Live /\ uid[h] # NoUid
      /\ rows[uid[h]].name = name[h] /\ pc[h] # "commit" /\ uid[h] \in Live'
  <2>1. op[h] = "password" /\ pc[h] # "commit"
    BY <1>0 DEF CheckCurrentPassword, ChangePassword, Shape, Ops
  <2>2. rows' = rows
    BY DEF CheckCurrentPassword, ChangePassword
  <2>3. uid[h] \in Live
    BY <1>0, <2>1 DEF Reads
  <2>4. uid[h] \in Uids /\ rows[uid[h]].name = name[h]
    BY <1>0, <2>1, <2>3 DEF Shape, Reads, Named, Live
  <2> QED
    BY <1>0, <2>1, <2>2, <2>3, <2>4, HolderOf DEF Holds, Making, Live
<1>2. RowNames
  BY <1>1 DEF RowNames
<1>3. ASSUME UNCHANGED <<policies, userpass, roles, told, damaged, refused>>,
             \/ Answer(h)
             \/ Goto(h, "set") /\ UNCHANGED request
      PROVE  VaultInv'
  <2>1. /\ Others(h)
        /\ \/ op'[h] = "none"
           \/ op'[h] = "password" /\ uid'[h] = uid[h] /\ pc'[h] = "set"
        /\ pc'[h] # "policy"
    BY <1>0, <1>1, <1>3, AnswerStep, GotoStep
  <2>2. Within(h)
    BY <1>0, <1>1, <1>3, <2>1 DEF Within
  <2>3. Done(h)'
    BY <2>1 DEF Done, Making
  <2>4. ASSUME NEW i \in Uids, i = uid[h] PROVE Usable(i)' /\ Cleared(i)'
    <3>1. i \in Live' /\ (i \notin damaged => Intact(i))
      BY <1>1, <2>4, UntouchedIntact
    <3> QED
      BY <1>1, <1>3, <3>1 DEF Usable, Cleared, Intact
  <2> QED
    BY <1>1, <1>2, <2>2, <2>3, <2>4, HolderGoes
<1>4. CASE CheckCurrentPassword(h)
  BY <1>3, <1>4 DEF CheckCurrentPassword, vault, history
<1>5. CASE ChangePassword(h) /\ userpass[name[h]] = NoAccount
  BY <1>3, <1>5 DEF ChangePassword, history
<1>6. CASE ChangePassword(h) /\ userpass[name[h]] # NoAccount
  <2>1. /\ Others(h) /\ pc'[h] = "commit" /\ op'[h] = op[h] /\ uid'[h] = uid[h]
        /\ name'[h] = name[h] /\ password'[h] = password[h]
    BY <1>0, <1>6, GotoStep DEF ChangePassword
  <2>2. userpass[name[h]] \in Account
    BY <1>0, <1>1, <1>6 DEF TypeOK
  <2>3. userpass'[name[h]] = [uid |-> userpass[name[h]].uid, password |-> password[h]]
    BY <1>0, <1>1, <1>6, <2>2 DEF ChangePassword, TypeOK, Account
  <2>4. Within(h)
    BY <1>0, <1>1, <1>6, <2>1, <2>3 DEF ChangePassword, Within, history, TypeOK
  <2>5. uid[h] \notin damaged => Intact(uid[h])
    BY <1>1, UntouchedIntact
  <2>6. Done(h)'
    BY <1>1, <1>6, <2>1, <2>3, <2>5 DEF Done, Making, Intact, ChangePassword, history
  <2>7. ASSUME NEW i \in Uids, i = uid[h] PROVE Usable(i)' /\ Cleared(i)'
    <3>1. rows[i].local => ~ Untouched(i)'
      BY <1>1, <2>1, <2>7 DEF Untouched
    <3> QED
      BY <1>1, <1>6, <2>5, <2>7, <3>1 DEF Usable, Cleared, Intact, ChangePassword, history
  <2> QED
    BY <1>1, <1>2, <2>4, <2>6, <2>7, HolderGoes
<1> QED
  BY <1>4, <1>5, <1>6

LEMMA VaultCommit ==
    ASSUME RowsInv, VaultInv, NEW h \in Handlers, Commit(h) PROVE VaultInv'
<1>0. /\ Done(h) /\ Shape(h) /\ TypeOK /\ Core /\ Shapes /\ Reads(h)
      /\ NoUid \notin Uids /\ pc[h] = "commit" /\ NoRow \notin Row
  BY ConstantsAssumption DEF VaultInv, RowsInv, Core, ReadsInv, Shapes, Commit
<1>1. /\ Others(h) /\ Released(h) /\ pc'[h] = "idle"
      /\ UNCHANGED <<policies, userpass, roles, damaged, refused>>
      /\ uid[h] \in Uids /\ op[h] \in {"create", "remove", "password", "frontend"}
  BY <1>0, CommitCases, AnswerStep, TypeParts DEF Commit, vault
<1>2. RowNames
  BY <1>0, CommitKeeps DEF RowNames
<1>3. Done(h)'
  BY <1>1 DEF Done, Released, Making
<1>4. CASE Holds(h)
  <2>1. name[h] \in Names /\ uid[h] # NoUid
    BY <1>0, <1>1, <1>4, HolderOf
  <2>2. \A i \in Uids \ {uid[h]} : rows'[i] = rows[i] /\ told'[i] = told[i]
    BY <1>0, <1>1, CommitCases DEF Commit, TypeOK
  <2>3. Within(h)
    BY <1>1, <2>2 DEF Within
  <2>4. ASSUME NEW i \in Uids, i = uid[h] PROVE Usable(i)' /\ Cleared(i)'
    <3>1. CASE op[h] = "remove"
      <4>1. i \notin Live'
        <5>1. rows[i] \in Row
          BY <1>0, <2>4, <3>1 DEF Reads, Live, TypeOK
        <5>2. rows' = [rows EXCEPT ![i].deleted = TRUE]
          BY <2>4, <3>1 DEF Commit
        <5> QED
          BY <1>0, <5>1, <5>2 DEF Live, TypeOK, Row
      <4>2. i \notin policies' /\ NoAccountOf(i)'
        BY <1>0, <1>1, <2>4, <3>1 DEF Done, NoAccountOf
      <4> QED
        BY <4>1, <4>2 DEF Usable, Cleared
    <3>2. CASE Making(h)
      <4>1. rows' = [rows EXCEPT ![i] = [name |-> name[h], deleted |-> FALSE,
                                         local |-> op[h] = "create"]]
        BY <1>0, <2>4, <3>2 DEF Commit, Making, Reads
      <4>2. [name |-> name[h], deleted |-> FALSE, local |-> op[h] = "create"] \in Row
        BY <2>1 DEF Row
      <4>3. rows'[i].name = name[h] /\ (rows'[i].local <=> op[h] = "create") /\ i \in Live'
        BY <1>0, <2>4, <4>1, <4>2 DEF TypeOK, Live
      <4>4. op[h] = "create" => told'[i] = password[h]
        BY <1>0, <2>4 DEF Commit, TypeOK
      <4>5. Intact(i)'
        BY <1>0, <1>1, <2>4, <3>2, <4>3, <4>4 DEF Intact, Done, Making
      <4> QED
        BY <4>3, <4>5 DEF Usable, Cleared
    <3>3. CASE op[h] = "password"
      <4>1. rows' = rows /\ i \in Live /\ rows[i].name = name[h] /\ i \in Live'
        BY <1>0, <2>1, <2>4, <3>3 DEF Commit, Reads, Live, Named
      <4>2. told'[i] = password[h]
        BY <1>0, <2>4, <3>3 DEF Commit, TypeOK
      <4>3. CASE rows[i].local
        BY <1>0, <1>1, <2>4, <3>3, <4>1, <4>2, <4>3 DEF Done, Usable, Cleared, Intact
      <4>4. CASE ~ rows[i].local
        <5>1. i \notin damaged => Intact(i)
          BY <1>4, <2>4, <3>3, <4>4, UntouchedIntact DEF Making
        <5> QED
          BY <1>1, <4>1, <4>4, <5>1 DEF Usable, Cleared, Intact
      <4> QED
        BY <4>3, <4>4
    <3> QED
      BY <1>4, <3>1, <3>2, <3>3 DEF Holds
  <2> QED
    BY <1>1, <1>2, <1>3, <1>4, <2>3, <2>4, HolderGoes
<1>5. CASE ~ Holds(h)
  <2>1. op[h] = "frontend" /\ rows' = rows /\ told' = told
    BY <1>0, <1>1, <1>5, CommitCases, MakingIsHolding DEF Commit, Holds
  <2> QED
    BY <1>1, <1>5, <2>1, OutsideKeeps DEF Outside, Released
<1> QED
  BY <1>4, <1>5

LEMMA VaultApprole ==
    ASSUME RowsInv, VaultInv, NEW h \in Handlers,
           CreateApprole(h) \/ GenerateSecretId(h) \/ StoreApproleInfo(h)
    PROVE  VaultInv'
<1> USE DEF PCs
<1>0. /\ Done(h) /\ Shape(h) /\ TypeOK /\ RequestType /\ op[h] \in Ops
      /\ NoUid \notin Uids
  BY TypeParts, ConstantsAssumption DEF VaultInv, RowsInv, TypeOK
<1>1. /\ Others(h) /\ op[h] = "frontend" /\ op'[h] = "frontend" /\ uid'[h] = uid[h]
      /\ uid[h] \in Uids /\ name'[h] = name[h] /\ pc[h] \in {"role", "wrap", "store"}
      /\ \/ pc[h] = "role" /\ uid[h] \in roles' /\ pc'[h] = "wrap"
         \/ pc[h] # "role" /\ pc'[h] \in {"store", "commit"}
  <2>1. op[h] = "frontend" /\ pc[h] \in {"role", "wrap", "store"} /\ uid[h] \in Uids
    BY <1>0 DEF CreateApprole, GenerateSecretId, StoreApproleInfo, Shape, Ops, TypeOK
  <2>2. CASE CreateApprole(h)
    BY <1>0, <2>1, <2>2, GotoStep DEF CreateApprole
  <2>3. CASE GenerateSecretId(h)
    BY <1>0, <2>1, <2>3 DEF GenerateSecretId, Goto, Others, Same, RequestType
  <2>4. CASE StoreApproleInfo(h)
    BY <1>0, <2>1, <2>4, GotoStep DEF StoreApproleInfo
  <2> QED
    BY <2>1, <2>2, <2>3, <2>4
<1>2. /\ UNCHANGED <<rows, policies, userpass, told, damaged>>
      /\ roles \subseteq roles' /\ refused \subseteq refused'
  BY DEF CreateApprole, GenerateSecretId, StoreApproleInfo, history
<1>3. RowNames
  BY <1>2 DEF RowNames
<1>4. CASE Making(h)
  <2>1. Within(h)
    BY <1>0, <1>1, <1>2 DEF Within
  <2>2. Making(h)'
    BY <1>1, <1>2, <1>4 DEF Making
  <2>3. (NoAccountOf(uid[h]))'
    BY <1>0, <1>1, <1>2, <1>4 DEF Done, NoAccountOf
  <2>4. Done(h)'
    BY <1>0, <1>1, <1>2, <1>4, <2>3 DEF Done
  <2> QED
    BY <1>1, <1>2, <1>3, <1>4, <2>1, <2>2, <2>4, MakingGoes
<1>5. CASE ~ Making(h)
  <2>1. ~ Holds(h)
    BY <1>1, <1>5 DEF Holds
  <2> QED
    BY <1>1, <1>2, <2>1, OutsideKeeps DEF Outside
<1> QED
  BY <1>4, <1>5

LEMMA VaultLogins ==
    ASSUME RowsInv, VaultInv, NEW h \in Handlers,
           RemoveShibbolethParams(h) \/ GetSecretId(h) \/ VaultLogin(h) \/ Login(h)
    PROVE  VaultInv'
<1> USE DEF PCs
<1>0. Shape(h) /\ RequestType /\ op[h] \in Ops
  BY TypeParts DEF RowsInv, TypeOK
<1>1. ~ Holds(h)
  BY <1>0 DEF RemoveShibbolethParams, GetSecretId, VaultLogin, Login, Shape, Ops, Holds, Making
<1>2. /\ Others(h) /\ pc'[h] # "policy"
      /\ op'[h] = "none" \/ (op'[h] = op[h] /\ uid'[h] = uid[h])
  BY <1>0, AnswerStep, GotoStep DEF RemoveShibbolethParams, GetSecretId, VaultLogin, Login
<1>3. UNCHANGED <<rows, policies, userpass, told, roles, refused, damaged>>
  BY DEF RemoveShibbolethParams, GetSecretId, VaultLogin, Login, vault, history
<1> QED
  BY <1>1, <1>2, <1>3, OutsideKeeps DEF Outside

\* A request begins with nothing in Vault of the user that it is going to make.
LEMMA BeginsClean ==
    ASSUME RowsInv, VaultInv, NEW h \in Handlers, ~ Holds(h), Others(h),
           UNCHANGED <<rows, vault, history>>,
           Making(h)' => /\ uid'[h] \in Uids \ used
                         /\ pc'[h] = "policy" /\ op'[h] \in {"create", "frontend"},
           pc'[h] = "policy" => Making(h)',
           op'[h] = "remove" => pc'[h] = "unuserpass",
           op'[h] = "password" => pc'[h] # "commit"
    PROVE  VaultInv'
<1>1. ASSUME NEW i \in Uids PROVE NoAccountOf(i)' = NoAccountOf(i)
  BY DEF NoAccountOf, vault
<1>2. ASSUME Making(h)'
      PROVE  uid'[h] \in Uids /\ uid'[h] \notin policies /\ NoAccountOf(uid'[h])
  <2> DEFINE j == uid'[h]
  <2>1. j \in Uids \ used /\ j # NoUid
    BY <1>2, ConstantsAssumption
  <2>2. j \notin Live \cup damaged
    BY <2>1 DEF RowsInv, Fresh, Live
  <2>3. \A g \in Handlers : Making(g) => uid[g] # j
    BY <2>1 DEF RowsInv, Reads, Named
  <2> QED
    BY <2>1, <2>2, <2>3 DEF VaultInv, Cleared
<1>3. Done(h)'
  <2>1. Making(h)' => (NoAccountOf(uid[h]))'
    BY <1>2 DEF NoAccountOf, vault
  <2> QED
    BY <1>2, <2>1 DEF Done, Making, vault
<1>4. ASSUME NEW g \in Handlers \ {h} PROVE Done(g)' /\ Making(g)' = Making(g)
  <2>1. Done(g) /\ Same(g) /\ Making(g)' = Making(g)
    BY DEF Others, VaultInv, Making, Same
  <2>2. (NoAccountOf(uid[g]))' = NoAccountOf(uid[g])
    BY <2>1 DEF NoAccountOf, vault, Same
  <2> QED
    BY <2>1, <2>2 DEF Done, Same, vault, history
<1>5. ASSUME NEW i \in Uids PROVE Usable(i)'
  <2> SUFFICES ASSUME i \in Live' \ damaged', Untouched(i)' PROVE Intact(i)'
    BY DEF Usable
  <2>1. i \in Live \ damaged /\ Untouched(i)
    BY DEF history, Live, Untouched, Others, Same, Holds
  <2> QED
    BY <2>1 DEF VaultInv, Usable, Intact, vault, history
<1>6. ASSUME NEW i \in Uids PROVE Cleared(i)'
  <2> SUFFICES ASSUME i \notin Live' \cup damaged',
                      \A g \in Handlers : Making(g)' => uid'[g] # i
               PROVE  (i \notin policies /\ NoAccountOf(i))'
    BY DEF Cleared
  <2>1. i \notin Live \cup damaged
    BY DEF history, Live
  <2>2. \A g \in Handlers : Making(g) => uid[g] # i
    BY <1>4 DEF Others, Same, Holds
  <2> QED
    BY <1>1, <2>1, <2>2 DEF VaultInv, Cleared, vault
<1> QED
  BY <1>3, <1>4, <1>5, <1>6 DEF VaultInv

LEMMA VaultRequest ==
    ASSUME RowsInv, VaultInv, NEW h \in Handlers, Request(h) PROVE VaultInv'
<1>0. TypeOK /\ Shape(h)
  BY DEF RowsInv
<1>1. PICK o \in Ops \ {"none"}, n \in Names, i \in Uids \cup {NoUid},
           w \in Wraps \cup {NoWrap}, p \in Passwords \cup {NoPassword}, l \in PCs :
        Begins(h, o, n, i, w, p, l)
  BY <1>0, Beginnings
<1>2. Others(h) /\ op'[h] = o /\ uid'[h] = i /\ pc'[h] = l /\ pc[h] = "idle"
  BY <1>0, <1>1, StartStep, TypeParts DEF Begins
<1>3. ~ Holds(h)
  BY <1>0, <1>2 DEF Shape, Holds, Making
<1>4. UNCHANGED <<rows, vault, history>>
  BY <1>1 DEF Begins
<1>5. Making(h)' <=> o = "create"
  BY <1>1, <1>2 DEF Making, Begins, Live
<1>6. /\ o = "create" => i \in Uids \ used /\ l = "policy"
      /\ o = "remove" => l = "unuserpass"
      /\ o = "password" => l # "commit"
      /\ l = "policy" => o = "create"
  BY <1>1 DEF Begins, Ops
<1> QED
  BY <1>2, <1>3, <1>4, <1>5, <1>6, BeginsClean

LEMMA VaultInsert ==
    ASSUME RowsInv, VaultInv, NEW h \in Handlers, StoreEppnDb(h) PROVE VaultInv'
<1>0. TypeOK /\ Shape(h) /\ op[h] = "frontend" /\ uid[h] = NoUid /\ NoUid \notin Uids
  BY ConstantsAssumption DEF RowsInv, Shape, StoreEppnDb, Ops, TypeOK
<1>1. ~ Holds(h) /\ UNCHANGED <<rows, vault, history>>
  BY <1>0 DEF Holds, Making, StoreEppnDb
<1>2. CASE Answer(h)
  <2>1. Others(h) /\ op'[h] = "none" /\ pc'[h] = "idle"
    BY <1>0, <1>2, AnswerStep, TypeParts
  <2> QED
    BY <1>1, <2>1, BeginsClean DEF Making
<1>3. CASE ~ Answer(h)
  <2>1. PICK i \in Uids \ used : uid' = [uid EXCEPT ![h] = i] /\ Goto(h, "policy")
                                 /\ UNCHANGED <<op, name, wrap, password>>
    BY <1>3 DEF StoreEppnDb
  <2>2. Others(h) /\ op'[h] = "frontend" /\ pc'[h] = "policy" /\ uid'[h] = i
    BY <1>0, <2>1 DEF Goto, Others, Same, TypeOK
  <2>3. Making(h)'
    BY <1>0, <1>1, <2>2 DEF Making, RowsInv, Fresh
  <2> QED
    BY <1>1, <2>2, <2>3, BeginsClean
<1> QED
  BY <1>2, <1>3

LEMMA VaultFail ==
    ASSUME RowsInv, VaultInv, NEW h \in Handlers, Fail(h) PROVE VaultInv'
<1>0. /\ Done(h) /\ Shape(h) /\ TypeOK /\ Reads(h) /\ NoUid \notin Uids
  BY ConstantsAssumption DEF VaultInv, RowsInv
<1>1. Others(h) /\ op'[h] = "none" /\ pc'[h] = "idle"
  BY <1>0, AnswerStep, TypeParts DEF Fail
<1>2. UNCHANGED <<rows, policies, userpass, roles, refused, told>> /\ damaged \subseteq damaged'
  BY DEF Fail, vault
<1>3. RowNames
  BY <1>2 DEF RowNames
<1>4. CASE ~ Holds(h)
  BY <1>1, <1>2, <1>4, OutsideKeeps DEF Outside
<1>5. CASE Holds(h)
  <2>1. Within(h)
    BY <1>1, <1>2 DEF Within
  <2>2. Done(h)'
    BY <1>1 DEF Done, Making
  <2>3. ASSUME NEW i \in Uids, i = uid[h] PROVE Usable(i)' /\ Cleared(i)'
    <3>1. CASE i \in damaged'
      BY <3>1 DEF Usable, Cleared
    <3>2. CASE i \notin damaged'
      <4>1. CASE Making(h)
        <5>1. pc[h] = "policy" /\ rows[i] = NoRow
          BY <1>0, <1>5, <2>3, <3>2, <4>1 DEF Fail, Making, Shape, Reads
        <5>2. i \notin policies /\ NoAccountOf(i)
          BY <1>0, <2>3, <4>1, <5>1 DEF Done
        <5> QED
          BY <1>2, <5>1, <5>2 DEF Usable, Cleared, Live, NoAccountOf
      <4>2. CASE ~ Making(h)
        <5>1. /\ op[h] = "remove" => pc[h] = "unuserpass"
              /\ op[h] = "password" => pc[h] # "commit"
              /\ i \notin damaged
          BY <1>2, <2>3, <3>2 DEF Fail
        <5>2. i \in Live /\ Intact(i)
          BY <1>5, <2>3, <4>2, <5>1, UntouchedIntact
        <5> QED
          BY <1>2, <5>2 DEF Usable, Cleared, Live, Intact
      <4> QED
        BY <4>1, <4>2
    <3> QED
      BY <3>1, <3>2
  <2>4. uid[h] \in Uids
    BY <1>5, HolderOf
  <2> QED
    BY <1>3, <1>5, <2>1, <2>2, <2>3, <2>4, HolderGoes
<1> QED
  BY <1>4, <1>5

LEMMA VaultNext == RowsInv /\ VaultInv /\ [Next]_vars => VaultInv'
<1> SUFFICES ASSUME RowsInv, VaultInv, [Next]_vars PROVE VaultInv'
  OBVIOUS
<1>1. CASE ListCubbyhole \/ RemoveEntry \/ Expire \/ UNCHANGED vars
  <2>1. /\ UNCHANGED <<rows, policies, userpass, roles, damaged, refused, told>>
        /\ UNCHANGED <<pc, op, name, uid, wrap, password>>
    BY <1>1 DEF ListCubbyhole, RemoveEntry, Expire, vars, vault, history, request
  <2> QED
    BY <2>1 DEF VaultInv, Done, Making, NoAccountOf, Usable, Cleared, Untouched, Intact, Live
<1>2. ASSUME NEW h \in Handlers, Step(h) PROVE VaultInv'
  BY <1>2, VaultCreates, VaultRemoves, VaultPassword, VaultCommit, VaultApprole, VaultLogins,
     VaultInsert DEF Step
<1> QED
  BY <1>1, <1>2, VaultRequest, VaultFail DEF Next

LEMMA VaultInit == Init => VaultInv
<1> SUFFICES ASSUME Init PROVE VaultInv
  OBVIOUS
<1>1. \A h \in Handlers : Done(h)
  BY DEF Init, Done, Making
<1>2. \A i \in Uids : Usable(i) /\ Cleared(i)
  BY DEF Init, Usable, Cleared, Live, NoAccountOf
<1> QED
  BY <1>1, <1>2 DEF VaultInv

-----------------------------------------------------------------------------
\* Wrapping tokens.
LEMMA GoodKept ==
    ASSUME NEW w \in Wraps, Good(w), wrapped'[w] \in {NoUid, wrapped[w]},
           refused \subseteq refused', lost \subseteq lost',
           cubby'[w] = cubby[w] \/ cubby'[w] # NoEntry \/ w \in lost'
             \/ \E h \in Handlers : wrap'[h] = w /\ pc'[h] = "unwrap",
           \A h \in Handlers : wrap[h] = w /\ pc[h] = "unwrap" =>
             \/ wrap'[h] = w /\ pc'[h] = "unwrap"
             \/ wrapped'[w] = NoUid \/ w \in lost'
    PROVE  Good(w)'
  BY DEF Good

LEMMA TokensGiven ==
    ASSUME TypeOK, TokensInv PROVE \A w \in Given : w \in Wraps /\ Good(w)
  BY DEF TypeOK, TokensInv, Given

\* What a handler does to tokens that are given, when it goes on or answers.
LEMMA TokensPlain ==
    ASSUME RowsInv, RowsInv', TokensInv, NEW h \in Handlers, Others(h),
           UNCHANGED <<wrapped, cubby>>, refused \subseteq refused', lost \subseteq lost',
           cookies' \subseteq cookies \cup ({wrap[h]} \ {NoWrap}),
           cookies' # cookies => pc[h] = "commit",
           pc[h] = "unwrap" => wrap[h] \in lost',
           pc'[h] = "commit" => wrap'[h] = NoWrap
    PROVE  TokensInv'
<1>1. TypeOK /\ TypeOK'
  BY DEF RowsInv
<1>2. ASSUME NEW w \in Given' PROVE Good(w)'
  <2>1. w \in Given
    BY <1>1, <1>2 DEF Given, Others, Same
  <2>2. w \in Wraps /\ Good(w)
    BY <1>1, <2>1, TokensGiven
  <2> QED
    BY <2>2, GoodKept DEF Others, Same
<1> QED
  BY <1>2 DEF TokensInv

LEMMA TokensStep ==
    ASSUME RowsInv, RowsInv', TokensInv, NEW h \in Handlers, Step(h) PROVE TokensInv'
<1> USE DEF PCs
<1>0. /\ TypeOK /\ TypeOK' /\ RequestType /\ Shape(h) /\ op[h] \in Ops
      /\ NoEntry \notin Entry /\ NoWrap \notin Wraps /\ NoUid \notin Uids
  BY ConstantsAssumption, TypeParts DEF RowsInv, TypeOK
<1>1. CASE \/ CreatePolicy(h) \/ PolicyHalfDone(h) \/ CreateVaultUser(h)
           \/ AccountHalfDone(h) \/ UndoPolicy(h) \/ RemoveVaultUser(h) \/ RemovePolicy(h) \/ CheckCurrentPassword(h)
           \/ ChangePassword(h) \/ PolicyRefused(h) \/ CreateApprole(h)
           \/ VaultLogin(h) \/ Login(h)
  <2>1. /\ UNCHANGED <<wrapped, cubby, cookies, lost>> /\ refused \subseteq refused'
        /\ pc[h] # "unwrap"
        /\ \/ Answer(h)
           \/ \E l \in PCs \ {"commit"} : Goto(h, l) /\ UNCHANGED request
           \/ /\ Goto(h, "commit") /\ UNCHANGED request
              /\ op[h] \notin {"frontend", "shibboleth"}
    <3>1. pc[h] \in {"userpass", "unpolicy", "set"} => op[h] \notin {"frontend", "shibboleth"}
      BY <1>0 DEF Shape
    <3> QED
      BY <1>1, <3>1 DEF CreatePolicy, PolicyHalfDone, CreateVaultUser, AccountHalfDone,
         UndoPolicy, RemoveVaultUser, RemovePolicy, CheckCurrentPassword, ChangePassword, PolicyRefused,
         CreateApprole, VaultLogin, Login, vault, history
  <2>2. Others(h) /\ (pc'[h] = "commit" => wrap'[h] = NoWrap)
    <3>1. CASE Answer(h)
      BY <1>0, <3>1, AnswerStep
    <3>2. CASE \E l \in PCs \ {"commit"} : Goto(h, l) /\ UNCHANGED request
      BY <1>0, <3>2, GotoStep
    <3>3. CASE /\ Goto(h, "commit") /\ UNCHANGED request
               /\ op[h] \notin {"frontend", "shibboleth"}
      BY <1>0, <3>3, GotoStep DEF Shape
    <3> QED
      BY <2>1, <3>1, <3>2, <3>3
  <2> QED
    BY <2>1, <2>2, TokensPlain
<1>2. CASE Commit(h)
  <2>1. Others(h) /\ pc'[h] = "idle"
    BY <1>0, <1>2, AnswerStep DEF Commit
  <2> QED
    BY <1>2, <2>1, TokensPlain DEF Commit, vault
<1>3. CASE StoreEppnDb(h)
  <2>1. Others(h) /\ pc'[h] # "commit"
    <3>1. CASE Answer(h)
      BY <1>0, <3>1, AnswerStep
    <3>2. CASE ~ Answer(h)
      BY <1>0, <1>3, <3>2 DEF StoreEppnDb, Others, Same, Goto, RequestType
    <3> QED
      BY <3>1, <3>2
  <2> QED
    BY <1>3, <2>1, TokensPlain DEF StoreEppnDb, vault, history
<1>4. CASE GenerateSecretId(h)
  <2>1. PICK w \in Wraps :
          /\ w \notin cookies \cup {wrap[g] : g \in Handlers}
          /\ wrapped' = [wrapped EXCEPT ![w] = uid[h]]
          /\ UNCHANGED <<cubby, refused, lost, cookies>>
    BY <1>4 DEF GenerateSecretId, history
  <2>2. Others(h) /\ pc[h] # "unwrap" /\ pc'[h] = "store"
    BY <1>0, <1>4 DEF GenerateSecretId, Goto, Others, Same, RequestType
  <2>3. ASSUME NEW v \in Given' PROVE Good(v)'
    <3>1. v \in Given
      BY <1>0, <2>1, <2>2, <2>3 DEF Given, Others, Same
    <3>2. v \in Wraps /\ Good(v)
      BY <1>0, <3>1, TokensGiven
    <3>3. v # w
      BY <2>1, <3>1 DEF Given
    <3>4. wrapped'[v] = wrapped[v]
      BY <1>0, <2>1, <3>2, <3>3 DEF TypeOK
    <3> QED
      BY <2>1, <2>2, <3>2, <3>4, GoodKept DEF Others, Same
  <2> QED
    BY <2>3 DEF TokensInv
<1>5. CASE StoreApproleInfo(h)
  <2>1. op[h] = "frontend" /\ wrap[h] \in Wraps /\ uid[h] \in Uids /\ name[h] \in Names
    BY <1>0, <1>5 DEF StoreApproleInfo, Shape, Ops, TypeOK
  <2>2. Others(h) /\ pc[h] # "unwrap" /\ wrap'[h] = wrap[h]
    BY <1>0, <1>5, GotoStep DEF StoreApproleInfo
  <2>3. [name |-> name[h], uid |-> uid[h]] \in Entry
    BY <2>1 DEF Entry
  <2>4. /\ UNCHANGED <<wrapped, lost, cookies>> /\ refused \subseteq refused'
        /\ \A w \in Wraps : cubby'[w] = cubby[w] \/ (w = wrap[h] /\ cubby'[w] # NoEntry)
        /\ cubby'[wrap[h]] # NoEntry \/ wrap[h] \in refused'
    BY <1>0, <1>5, <2>1, <2>3 DEF StoreApproleInfo, TypeOK
  <2>5. ASSUME NEW w \in Given' PROVE Good(w)'
    <3>1. CASE w = wrap[h]
      BY <2>4, <3>1 DEF Good
    <3>2. CASE w # wrap[h]
      <4>1. w \in Given
        BY <1>0, <2>2, <2>4, <2>5, <3>2 DEF Given, Others, Same
      <4>2. w \in Wraps /\ Good(w)
        BY <1>0, <4>1, TokensGiven
      <4> QED
        BY <2>2, <2>4, <4>2, GoodKept DEF Others, Same
    <3> QED
      BY <3>1, <3>2
  <2> QED
    BY <2>5 DEF TokensInv
<1>6. CASE RemoveShibbolethParams(h)
  <2>1. op[h] = "shibboleth" /\ wrap[h] \in Wraps
    BY <1>0, <1>6 DEF RemoveShibbolethParams, Shape, Ops
  <2>2. Others(h) /\ pc[h] # "unwrap" /\ wrap'[h] = wrap[h] /\ pc'[h] = "unwrap"
    BY <1>0, <1>6, GotoStep DEF RemoveShibbolethParams
  <2>3. /\ UNCHANGED <<wrapped, lost, refused, cookies>>
        /\ \A w \in Wraps : cubby'[w] = cubby[w] \/ w = wrap[h]
    BY <1>0, <1>6, <2>1 DEF RemoveShibbolethParams, TypeOK, history
  <2>4. ASSUME NEW w \in Given' PROVE Good(w)'
    <3>1. w \in Given
      BY <1>0, <2>2, <2>3, <2>4 DEF Given, Others, Same
    <3>2. w \in Wraps /\ Good(w)
      BY <1>0, <3>1, TokensGiven
    <3> QED
      BY <2>2, <2>3, <3>2, GoodKept DEF Others, Same
  <2> QED
    BY <2>4 DEF TokensInv
<1>7. CASE GetSecretId(h)
  <2>1. op[h] = "shibboleth" /\ wrap[h] \in Wraps
    BY <1>0, <1>7 DEF GetSecretId, Shape, Ops
  <2>2. Others(h) /\ pc'[h] # "commit"
    BY <1>0, <1>7, AnswerStep, GotoStep DEF GetSecretId
  <2>3. /\ UNCHANGED <<cubby, lost, refused, cookies>> /\ wrapped'[wrap[h]] = NoUid
        /\ \A w \in Wraps : wrapped'[w] \in {NoUid, wrapped[w]}
    BY <1>0, <1>7, <2>1 DEF GetSecretId, TypeOK, history
  <2>4. ASSUME NEW w \in Given' PROVE Good(w)'
    <3>1. w \in Given
      BY <1>0, <2>2, <2>3, <2>4 DEF Given, Others, Same
    <3>2. w \in Wraps /\ Good(w)
      BY <1>0, <3>1, TokensGiven
    <3> QED
      BY <2>2, <2>3, <3>2, GoodKept DEF Others, Same
  <2> QED
    BY <2>4 DEF TokensInv
<1> QED
  BY <1>1, <1>2, <1>3, <1>4, <1>5, <1>6, <1>7 DEF Step

LEMMA TokensNext == RowsInv /\ RowsInv' /\ TokensInv /\ [Next]_vars => TokensInv'
<1> SUFFICES ASSUME RowsInv, RowsInv', TokensInv, [Next]_vars PROVE TokensInv'
  OBVIOUS
<1>0. TypeOK /\ TypeOK' /\ RequestType
  BY TypeParts DEF RowsInv
<1>1. ASSUME NEW h \in Handlers, Request(h) PROVE TokensInv'
  <2>1. PICK o \in Ops \ {"none"}, n \in Names, i \in Uids \cup {NoUid},
             w \in Wraps \cup {NoWrap}, p \in Passwords \cup {NoPassword}, l \in PCs :
          Begins(h, o, n, i, w, p, l)
    BY <1>0, <1>1, Beginnings
  <2>2. Others(h) /\ pc'[h] = l /\ pc[h] = "idle"
    BY <1>0, <2>1, StartStep DEF Begins
  <2>3. l # "commit" /\ UNCHANGED <<wrapped, cubby, cookies, lost, refused>>
    BY <2>1 DEF Begins, vault, history, Ops
  <2> QED
    BY <2>2, <2>3, TokensPlain
<1>2. ASSUME NEW h \in Handlers, Fail(h) PROVE TokensInv'
  <2>1. Others(h) /\ pc'[h] = "idle"
    BY <1>0, <1>2, AnswerStep DEF Fail
  <2>2. Shape(h)
    BY DEF RowsInv
  <2>3. pc[h] = "unwrap" => op[h] = "shibboleth"
    BY <1>0, <2>2 DEF Shape, RequestType, Ops
  <2>4. cookies' \subseteq cookies \cup ({wrap[h]} \ {NoWrap})
    BY <1>0, <1>2, <2>2, ConstantsAssumption DEF Fail, Shape
  <2> QED
    BY <1>2, <2>1, <2>3, <2>4, TokensPlain DEF Fail, vault
<1>3. CASE ListCubbyhole \/ RemoveEntry \/ Expire \/ UNCHANGED vars
  <2>1. /\ UNCHANGED <<pc, op, name, uid, wrap, password, cookies, refused>>
        /\ UNCHANGED <<cubby, lost>>
        /\ \A w \in Wraps : wrapped'[w] \in {NoUid, wrapped[w]}
    BY <1>0, <1>3, CleanUp DEF ListCubbyhole, RemoveEntry, Expire, vars, vault, history, request,
       TypeOK
  <2>2. ASSUME NEW w \in Given' PROVE Good(w)'
    <3>1. w \in Given
      BY <2>1, <2>2 DEF Given
    <3>2. w \in Wraps /\ Good(w)
      BY <1>0, <3>1, TokensGiven
    <3> QED
      BY <2>1, <3>2, GoodKept
  <2> QED
    BY <2>2 DEF TokensInv
<1> QED
  BY <1>1, <1>2, <1>3, TokensStep DEF Next

-----------------------------------------------------------------------------
\* One log-in for each token.
Once == Spent /\ TokenUsedOnce

\* Steps after which nobody new has a secret id, and no token is wrapped anew.
LEMMA OnceKept ==
    ASSUME TypeOK, Once, sessions' = sessions, cookies \subseteq cookies',
           \A w \in Wraps : w \in cookies => wrapped'[w] \in {NoUid, wrapped[w]},
           \A g \in Handlers :
             /\ op'[g] = "shibboleth" => wrap'[g] \in cookies'
             /\ pc'[g] = "approle" => pc[g] = "approle" /\ wrap'[g] = wrap[g],
           \A g \in Handlers : pc[g] = "approle" => op[g] = "shibboleth"
    PROVE  Once'
<1>1. \A g \in Handlers : pc[g] = "approle" => wrap[g] \in Wraps /\ wrap[g] \in cookies
  BY DEF TypeOK, Once, Spent
<1>2. \A s \in sessions : s.wrap # NoWrap => s.wrap \in Wraps
  BY DEF TypeOK, Session
<1>3. Spent'
  BY <1>1, <1>2 DEF Once, Spent
<1>4. TokenUsedOnce'
  BY DEF Once, TokenUsedOnce
<1> QED
  BY <1>3, <1>4 DEF Once

LEMMA OnceStep ==
    ASSUME RowsInv, Once, NEW h \in Handlers, Step(h) PROVE Once'
<1> USE DEF PCs
<1>0. /\ TypeOK /\ RequestType /\ Shape(h) /\ op[h] \in Ops
      /\ NoWrap \notin Wraps /\ NoUid \notin Uids
      /\ \A g \in Handlers : pc[g] = "approle" => op[g] = "shibboleth"
  BY ConstantsAssumption, TypeParts DEF RowsInv, TypeOK, Shape, Ops
<1>1. \A g \in Handlers : op[g] = "shibboleth" => wrap[g] \in cookies
  BY DEF Once, Spent
<1>2. CASE \/ CreatePolicy(h) \/ PolicyHalfDone(h) \/ CreateVaultUser(h)
           \/ AccountHalfDone(h) \/ UndoPolicy(h) \/ RemoveVaultUser(h) \/ RemovePolicy(h) \/ CheckCurrentPassword(h)
           \/ ChangePassword(h) \/ PolicyRefused(h) \/ CreateApprole(h)
           \/ StoreApproleInfo(h) \/ RemoveShibbolethParams(h)
  <2>1. /\ UNCHANGED <<wrapped, cookies, sessions>>
        /\ Answer(h) \/ \E l \in PCs \ {"approle"} : Goto(h, l) /\ UNCHANGED request
    BY <1>2 DEF CreatePolicy, PolicyHalfDone, CreateVaultUser, AccountHalfDone,
       UndoPolicy, RemoveVaultUser, RemovePolicy, CheckCurrentPassword, ChangePassword, PolicyRefused,
       CreateApprole, StoreApproleInfo, RemoveShibbolethParams, vault, history
  <2>2. /\ Others(h) /\ pc'[h] # "approle"
        /\ op'[h] = "none" \/ (op'[h] = op[h] /\ wrap'[h] = wrap[h])
    BY <1>0, <2>1, AnswerStep, GotoStep
  <2> QED
    BY <1>0, <1>1, <2>1, <2>2, OnceKept DEF Others, Same
<1>3. CASE Commit(h)
  <2>1. Others(h) /\ pc'[h] = "idle" /\ op'[h] = "none"
    BY <1>0, <1>3, AnswerStep DEF Commit
  <2> QED
    BY <1>0, <1>1, <1>3, <2>1, OnceKept DEF Commit, vault, Others, Same
<1>4. CASE StoreEppnDb(h)
  <2>1. Others(h) /\ pc'[h] # "approle" /\ op'[h] # "shibboleth"
    <3>1. CASE Answer(h)
      BY <1>0, <3>1, AnswerStep
    <3>2. CASE ~ Answer(h)
      BY <1>0, <1>4, <3>2 DEF StoreEppnDb, Others, Same, Goto, RequestType, Shape, Ops
    <3> QED
      BY <3>1, <3>2
  <2> QED
    BY <1>0, <1>1, <1>4, <2>1, OnceKept DEF StoreEppnDb, vault, Others, Same
<1>5. CASE GenerateSecretId(h)
  <2>1. PICK w \in Wraps :
          /\ w \notin cookies
          /\ wrapped' = [wrapped EXCEPT ![w] = uid[h]]
          /\ UNCHANGED <<cookies, sessions>>
    BY <1>5 DEF GenerateSecretId
  <2>2. Others(h) /\ pc'[h] = "store" /\ op'[h] = "frontend"
    BY <1>0, <1>5 DEF GenerateSecretId, Goto, Others, Same, RequestType, Shape, Ops
  <2>3. \A v \in Wraps : v \in cookies => wrapped'[v] = wrapped[v]
    BY <1>0, <2>1 DEF TypeOK
  <2> QED
    BY <1>0, <1>1, <2>1, <2>2, <2>3, OnceKept DEF Others, Same
<1>6. CASE GetSecretId(h) /\ wrapped[wrap[h]] = NoUid
  <2>1. /\ wrapped' = [wrapped EXCEPT ![wrap[h]] = NoUid] /\ Answer(h)
        /\ UNCHANGED <<cookies, sessions>>
    BY <1>6 DEF GetSecretId
  <2>2. Others(h) /\ pc'[h] = "idle" /\ op'[h] = "none"
    BY <1>0, <2>1, AnswerStep
  <2>3. \A v \in Wraps : wrapped'[v] \in {NoUid, wrapped[v]}
    BY <1>0, <2>1 DEF TypeOK
  <2> QED
    BY <1>0, <1>1, <2>1, <2>2, <2>3, OnceKept DEF Others, Same
<1>7. CASE GetSecretId(h) /\ wrapped[wrap[h]] # NoUid
  <2>1. op[h] = "shibboleth" /\ wrap[h] \in Wraps /\ wrap[h] \in cookies
    BY <1>0, <1>1, <1>7 DEF GetSecretId, Shape, Ops
  <2>2. /\ Others(h) /\ pc'[h] = "approle" /\ wrap'[h] = wrap[h] /\ op'[h] = op[h]
        /\ UNCHANGED <<cookies, sessions>>
    BY <1>0, <1>7, GotoStep DEF GetSecretId
  <2>3. wrapped'[wrap[h]] = NoUid /\ \A v \in Wraps : wrapped'[v] \in {NoUid, wrapped[v]}
    BY <1>0, <1>7, <2>1 DEF GetSecretId, TypeOK
  <2>4. \A g \in Handlers \ {h} : pc[g] = "approle" => wrap[g] # wrap[h] /\ wrap[g] \in Wraps
    BY <1>0, <1>7 DEF Once, Spent, RowsInv, Shape
  <2>5. \A s \in sessions : s.wrap # wrap[h] /\ s.wrap \in Wraps \cup {NoWrap}
    BY <1>0, <1>7, <2>1 DEF Once, Spent, TypeOK, Session
  <2>6. Spent'
    BY <1>1, <2>1, <2>2, <2>3, <2>4, <2>5 DEF Once, Spent, Others, Same
  <2>7. TokenUsedOnce'
    BY <2>2, <2>4, <2>5 DEF Once, TokenUsedOnce, Others, Same
  <2> QED
    BY <2>6, <2>7 DEF Once
<1>8. CASE VaultLogin(h)
  <2>1. op[h] = "shibboleth" /\ wrap[h] \in Wraps /\ wrap[h] \in cookies
        /\ wrapped[wrap[h]] = NoUid /\ pc[h] = "approle"
    BY <1>0, <1>1, <1>8 DEF VaultLogin, Shape, Ops, Once, Spent
  <2>2. Others(h) /\ pc'[h] = "idle" /\ op'[h] = "none" /\ UNCHANGED <<cookies, wrapped>>
    BY <1>0, <1>8, AnswerStep DEF VaultLogin, vault
  <2>3. \A s \in sessions' : s \in sessions \/ s.wrap = wrap[h]
    BY <1>8 DEF VaultLogin
  <2>4. Spent'
    BY <1>1, <2>1, <2>2, <2>3 DEF Once, Spent, Others, Same
  <2>5. TokenUsedOnce'
    BY <2>1, <2>2, <2>3 DEF Once, TokenUsedOnce, Others, Same
  <2> QED
    BY <2>4, <2>5 DEF Once
<1>9. CASE Login(h)
  <2>1. Others(h) /\ pc'[h] = "idle" /\ op'[h] = "none" /\ UNCHANGED <<cookies, wrapped>>
    BY <1>0, <1>9, AnswerStep DEF Login, vault
  <2>2. \A s \in sessions' : s \in sessions \/ s.wrap = NoWrap
    BY <1>9 DEF Login
  <2>3. Spent'
    BY <1>1, <2>1, <2>2 DEF Once, Spent, Others, Same
  <2>4. \A g \in Handlers : pc[g] = "approle" => wrap[g] # NoWrap
    BY <1>0 DEF RowsInv, Shape
  <2>5. TokenUsedOnce'
    BY <2>1, <2>2, <2>4 DEF Once, TokenUsedOnce, Others, Same
  <2> QED
    BY <2>3, <2>5 DEF Once
<1> QED
  BY <1>2, <1>3, <1>4, <1>5, <1>6, <1>7, <1>8, <1>9 DEF Step

LEMMA OnceNext == RowsInv /\ Once /\ [Next]_vars => Once'
<1> SUFFICES ASSUME RowsInv, Once, [Next]_vars PROVE Once'
  OBVIOUS
<1>0. /\ TypeOK /\ RequestType /\ \A g \in Handlers : pc[g] = "approle" => op[g] = "shibboleth"
      /\ \A g \in Handlers : op[g] = "shibboleth" => wrap[g] \in cookies
  BY TypeParts DEF RowsInv, TypeOK, Shape, Ops, Once, Spent
<1>1. ASSUME NEW h \in Handlers, Request(h) PROVE Once'
  <2>1. PICK o \in Ops \ {"none"}, n \in Names, i \in Uids \cup {NoUid},
             w \in Wraps \cup {NoWrap}, p \in Passwords \cup {NoPassword}, l \in PCs :
          Begins(h, o, n, i, w, p, l)
    BY <1>0, <1>1, Beginnings
  <2>2. Others(h) /\ pc'[h] = l /\ op'[h] = o /\ wrap'[h] = w
    BY <1>0, <2>1, StartStep DEF Begins
  <2>3. l # "approle" /\ UNCHANGED <<wrapped, cookies, sessions>>
        /\ (o = "shibboleth" => w \in cookies)
    BY <2>1 DEF Begins, vault, Ops
  <2> QED
    BY <1>0, <2>2, <2>3, OnceKept DEF Others, Same
<1>2. ASSUME NEW h \in Handlers, Fail(h) PROVE Once'
  <2>1. Others(h) /\ pc'[h] = "idle" /\ op'[h] = "none"
    BY <1>0, <1>2, AnswerStep DEF Fail
  <2> QED
    BY <1>0, <1>2, <2>1, OnceKept DEF Fail, vault, Others, Same
<1>3. CASE ListCubbyhole \/ RemoveEntry \/ Expire \/ UNCHANGED vars
  <2>1. /\ UNCHANGED <<pc, op, wrap, cookies, sessions>>
        /\ \A w \in Wraps : wrapped'[w] \in {NoUid, wrapped[w]}
    BY <1>0, <1>3 DEF ListCubbyhole, RemoveEntry, Expire, vars, vault, request, TypeOK
  <2> QED
    BY <1>0, <2>1, OnceKept
<1> QED
  BY <1>1, <1>2, <1>3, OnceStep DEF Next

LEMMA OnceInit == Init => Once
  BY DEF Init, Once, Spent, TokenUsedOnce

LEMMA TokensInit == Init => TokensInv
  BY DEF Init, TokensInv, Given

-----------------------------------------------------------------------------
(***************************************************************************)
(* The theorems                                                            *)
(***************************************************************************)
\* The strengthening is inductive: it says who may still create an account, a
\* policy or a role for a name, and for which names the ids in Vault are.
THEOREM Invariance == Spec => []IInv
<1>1. Init => IInv
  BY RowsInit, VaultInit, TokensInit, OnceInit DEF IInv, Once
<1>2. IInv /\ [Next]_vars => IInv'
  BY RowsNext, VaultNext, TokensNext, OnceNext DEF IInv, Once
<1> QED
  BY <1>1, <1>2, PTL DEF Spec

\* Every variable keeps its type.
THEOREM TypeCorrect == Spec => []TypeOK
<1>1. IInv => TypeOK
  BY DEF IInv, RowsInv
<1> QED
  BY <1>1, Invariance, PTL

\* A live user can log in, whatever requests about it and others have met: in
\* Vault is what the log-in needs, and the password is the one agreed last.
THEOREM UsersCanLogIn == Spec => []LiveUsersCanLogIn
<1>1. IInv => LiveUsersCanLogIn
  <2> SUFFICES ASSUME IInv, NEW i \in Live \ damaged, ~ Locked(rows[i].name)
               PROVE  Intact(i)
    BY DEF LiveUsersCanLogIn, Intact
  <2>1. RowsInv /\ i \in Uids /\ i \in Live
    BY DEF IInv, Live
  <2>2. ASSUME NEW h \in Handlers, uid[h] = i PROVE op[h] \notin {"remove", "password"}
    <3>1. rows[i] # NoRow /\ i # NoUid /\ Reads(h)
      BY <2>1, ConstantsAssumption DEF Live, RowsInv
    <3>2. name[h] = rows[i].name
      BY <2>2, <3>1 DEF Reads, Named
    <3> QED
      BY <3>2, MakingIsHolding DEF Holds
  <2>3. Untouched(i)
    BY <2>2 DEF Untouched
  <2> QED
    BY <2>1, <2>3 DEF IInv, VaultInv, Usable
<1> QED
  BY <1>1, Invariance, PTL

\* Nothing is left in Vault of a user who was removed, or never came to be.
THEOREM RemovedStayOut == Spec => []RemovedForGood
<1>1. IInv => RemovedForGood
  <2> SUFFICES ASSUME IInv, NEW i \in used \ (Live \cup damaged),
                      \A h \in Handlers : uid[h] = i => op[h] \in {"local", "shibboleth"}
               PROVE  i \notin policies /\ NoAccountOf(i)
    BY DEF RemovedForGood, NoAccountOf
  <2>1. i \in Uids
    BY DEF IInv, RowsInv, TypeOK
  <2>2. \A h \in Handlers : Making(h) => uid[h] # i
    BY DEF Making
  <2> QED
    BY <2>1, <2>2 DEF IInv, VaultInv, Cleared
<1> QED
  BY <1>1, Invariance, PTL

\* No session of a live user has the Vault token of another live user.
THEOREM SessionsOwn == Spec => []OwnData
<1>1. IInv => OwnData
  <2> SUFFICES ASSUME IInv, NEW s \in sessions, s.uid \in Live, s.vault \in Live
               PROVE  s.vault = s.uid
    BY DEF OwnData
  <2>1. s.uid # NoUid /\ rows[s.vault] # NoRow
    BY ConstantsAssumption DEF Live
  <2>2. Named(s.vault, rows[s.uid].name)
    BY <2>1 DEF IInv, RowsInv, NamesAgree
  <2> QED
    BY <2>1, <2>2 DEF IInv, RowsInv, Named, Unique
<1> QED
  BY <1>1, Invariance, PTL

\* While a wrapping token lasts, the browser that has it can log in with it.
THEOREM TokensWork == Spec => []TokenIsGood
<1>1. IInv => TokenIsGood
  <2> SUFFICES ASSUME IInv, NEW w \in cookies, wrapped[w] # NoUid,
                      w \notin refused \cup lost, \A h \in Handlers : wrap[h] # w
               PROVE  cubby[w] # NoEntry
    BY DEF TokenIsGood
  <2>1. w \in Given
    BY ConstantsAssumption DEF Given, IInv, RowsInv, TypeOK
  <2> QED
    BY <2>1 DEF IInv, TokensInv, Good
<1> QED
  BY <1>1, Invariance, PTL

\* A wrapping token is worth one log-in, also when it is sent twice at a time.
THEOREM TokensOnce == Spec => []TokenUsedOnce
<1>1. IInv => TokenUsedOnce
  BY DEF IInv
<1> QED
  BY <1>1, Invariance, PTL
=============================================================================
