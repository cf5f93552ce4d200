------------------------------- MODULE Browser ------------------------------
(***************************************************************************)
(* Sessions: the `authentication' service, the Vault tokens in Redis, the  *)
(* client of Vault, and the tabs of one browser with the guard of the      *)
(* router, the pages for logging in and out, and the store of the tab.     *)
(*                                                                         *)
(* A log-in makes a JWT for the browser and an entry in Redis with the     *)
(* Vault token of the user; how the user is found is the matter of module  *)
(* Accounts.  A tab keeps the JWT in memory and all tabs share a copy in   *)
(* localStorage.  The store of a tab is the set of records it has found.   *)
(* The names that Pages has too differ, so that a module can extend both.  *)
(***************************************************************************)
EXTENDS Naturals

CONSTANTS
    Tabs, Users,
    Jwts,       \* JWTs (bounds the number of log-ins)
    Owned,      \* Owned[u]: the records that a find by u returns
    Counted,    \* the records that LogoutView looks for in the store: streams,
                \* public keys and access keys, not the parts of a stream
    JwtTtl,     \* expiresIn of the JWT
    MaxNow,     \* the last moment of the clock (a bound)
    NoJwt, NoSession, NoUser

Records == UNION {Owned[u] : u \in Users}
Session == [user : Users, exp : 0 .. MaxNow + JwtTtl, shibboleth : BOOLEAN]
PCs    == {"none", "authenticate", "login", "redis", "logout"}
Places == {"blank", "home", "login", "shibboleth", "logout", "out"}

ASSUME BrowserAssumption ==
    /\ NoJwt \notin Jwts /\ NoUser \notin Users /\ NoSession \notin Session
    /\ JwtTtl \in Nat \ {0} /\ MaxNow \in Nat
    /\ Counted \subseteq Records

VARIABLES
    now,
    jwts,       \* jwts[j]: what the JWT j says
    redis,      \* redis[j]: whose Vault token is stored for j, and until when
    stored,     \* the JWT in localStorage
    mine,       \* mine[t]: the JWT in the memory of t; auth.user is its user
    page,
    storeOf,    \* storeOf[t]: the records in the store of t
    finds,      \* finds[t]: the JWT of a find that t waits for
    pc,         \* pc[t]: what t waits for
    who, fresh, \* the user who logs in at t, and the JWT made or tried for it
    \* History variables: JWTs whose entries Redis has lost; tabs that were left
    \* with a find under way; tabs at which another user has logged in without a
    \* log-out.
    lost, late, switched

sessions == <<now, jwts, redis>>
tab      == <<mine, page, storeOf, finds, pc, who, fresh>>
history  == <<lost, late, switched>>
browserVars == <<sessions, stored, tab, history>>

BrowserTypeOK ==
    /\ now \in 0 .. MaxNow
    /\ jwts \in [Jwts -> Session \cup {NoSession}]
    /\ redis \in [Jwts -> Session \cup {NoSession}]
    /\ stored \in {j \in Jwts : jwts[j] # NoSession} \cup {NoJwt}
    /\ mine \in [Tabs -> {j \in Jwts : jwts[j] # NoSession} \cup {NoJwt}]
    /\ page \in [Tabs -> Places] /\ storeOf \in [Tabs -> SUBSET Records]
    /\ finds \in [Tabs -> Jwts \cup {NoJwt}] /\ pc \in [Tabs -> PCs]
    /\ who \in [Tabs -> Users \cup {NoUser}] /\ fresh \in [Tabs -> Jwts \cup {NoJwt}]
    /\ lost \subseteq Jwts /\ late \subseteq Tabs /\ switched \subseteq Tabs
    /\ \A t \in Tabs : page[t] = "home" => mine[t] # NoJwt

BrowserInit ==
    /\ now = 0
    /\ jwts = [j \in Jwts |-> NoSession] /\ redis = [j \in Jwts |-> NoSession]
    /\ stored = NoJwt
    /\ mine = [t \in Tabs |-> NoJwt] /\ page = [t \in Tabs |-> "blank"]
    /\ storeOf = [t \in Tabs |-> {}] /\ finds = [t \in Tabs |-> NoJwt]
    /\ pc = [t \in Tabs |-> "none"] /\ who = [t \in Tabs |-> NoUser]
    /\ fresh = [t \in Tabs |-> NoJwt]
    /\ lost = {} /\ late = {} /\ switched = {}

-----------------------------------------------------------------------------
Goto(t, l)   == pc' = [pc EXCEPT ![t] = l]
Idle(t)      == /\ Goto(t, "none")
                /\ who' = [who EXCEPT ![t] = NoUser]
                /\ fresh' = [fresh EXCEPT ![t] = NoJwt]
Show(t, p)   == page' = [page EXCEPT ![t] = p]
Valid(j)     == j # NoJwt /\ jwts[j].exp > now
User(t)      == jwts[mine[t]].user

\* paramsToRequestConfig finds a token; Redis drops it at the end of its time.
HasToken(j)  == redis[j] # NoSession /\ redis[j].exp > now

\* Mutant: expiresIn is not read, entries last for the default time.
DefaultExpire == 1

\* setup: an entry is kept for as long as a JWT is valid.
Expire == JwtTtl

-----------------------------------------------------------------------------
(***************************************************************************)
(* The guard of the router (beforeEach), for pages that require a user.    *)
(***************************************************************************)
Visit(t) ==
    /\ pc[t] = "none" /\ page[t] # "home"
    /\ \/ mine[t] # NoJwt /\ Show(t, "home") /\ UNCHANGED <<pc, fresh>>
       \/ /\ mine[t] = NoJwt
          /\ fresh' = [fresh EXCEPT ![t] = stored]
          /\ Goto(t, "authenticate")
          /\ UNCHANGED page
    /\ UNCHANGED <<sessions, stored, mine, storeOf, finds, who, history>>

\* auth/authenticate with the stored JWT; the client drops what is stored when
\* the server refuses it.
Authenticate(t) ==
    /\ pc[t] = "authenticate"
    /\ \/ /\ Valid(fresh[t])
          /\ mine' = [mine EXCEPT ![t] = fresh[t]]
          /\ Show(t, "home")
          /\ UNCHANGED stored
       \/ /\ ~ Valid(fresh[t])
          /\ stored' = NoJwt
          /\ Show(t, "login")
          /\ UNCHANGED mine
    /\ Idle(t)
    /\ UNCHANGED <<sessions, storeOf, finds, history>>

\* A reload, or an address typed in: the memory of the tab is new.
ReloadTab(t) ==
    /\ page[t] # "blank" \/ pc[t] # "none"
    /\ \E p \in {"blank", "login", "shibboleth"} : Show(t, p)
    /\ mine' = [mine EXCEPT ![t] = NoJwt]
    /\ storeOf' = [storeOf EXCEPT ![t] = {}]
    /\ finds' = [finds EXCEPT ![t] = NoJwt]
    /\ Idle(t)
    /\ late' = late \ {t} /\ switched' = switched \ {t}
    /\ UNCHANGED <<sessions, stored, lost>>

-----------------------------------------------------------------------------
(***************************************************************************)
(* Log-in: LoginForm and LoginShibbolethView, and create of the service.   *)
(***************************************************************************)
LoginForm(t) ==
    /\ pc[t] = "none" /\ page[t] = "login"
    /\ \E u \in Users : who' = [who EXCEPT ![t] = u]
    /\ Goto(t, "login")
    /\ UNCHANGED <<sessions, stored, mine, page, storeOf, finds, fresh, history>>

LoginShibboleth(t) ==
    /\ pc[t] = "none" /\ page[t] = "shibboleth"
    /\ \E u \in Users : who' = [who EXCEPT ![t] = u]
    /\ Goto(t, "login")
    /\ UNCHANGED <<sessions, stored, mine, page, storeOf, finds, fresh, history>>

\* createAccessToken, or the user is not who he says: either page stays.
CreateAccessToken(t) ==
    /\ pc[t] = "login"
    /\ \/ /\ \E j \in Jwts :
               /\ jwts[j] = NoSession
               /\ jwts' = [jwts EXCEPT ![j] =
                             [user |-> who[t], exp |-> now + JwtTtl,
                              shibboleth |-> page[t] = "shibboleth"]]
               /\ fresh' = [fresh EXCEPT ![t] = j]
          /\ Goto(t, "redis")
          /\ UNCHANGED who
       \/ Idle(t) /\ UNCHANGED jwts
    /\ UNCHANGED <<now, redis, stored, mine, page, storeOf, finds, history>>

\* Then the token is stored, and the JWT answered; or Redis fails.
SetRedis(t) ==
    LET j == fresh[t]
    IN  /\ pc[t] = "redis"
        /\ \/ /\ redis' = [redis EXCEPT ![j] = [jwts[j] EXCEPT !.exp = now + Expire]]
              /\ mine' = [mine EXCEPT ![t] = j]
              /\ stored' = j
              /\ Show(t, "home")
              /\ switched' = IF mine[t] # NoJwt /\ User(t) # who[t]
                               THEN switched \cup {t} ELSE switched
           \/ UNCHANGED <<redis, mine, stored, page, switched>>
        /\ Idle(t)
        /\ UNCHANGED <<now, jwts, storeOf, finds, lost, late>>

-----------------------------------------------------------------------------
(***************************************************************************)
(* Requests of a page                                                      *)
(***************************************************************************)
Find(t) ==
    /\ page[t] = "home" /\ finds[t] = NoJwt
    /\ finds' = [finds EXCEPT ![t] = mine[t]]
    /\ UNCHANGED <<sessions, stored, mine, page, storeOf, pc, who, fresh, history>>

\* The answer goes into the store wherever the tab is now; an error 401 sends
\* the tab to the log-in page, and leaves store and user as they are.
TabFindAnswered(t) ==
    /\ finds[t] # NoJwt
    /\ finds' = [finds EXCEPT ![t] = NoJwt]
    /\ \/ /\ Valid(finds[t])
          /\ storeOf' = [storeOf EXCEPT ![t] = @ \cup Owned[jwts[finds[t]].user]]
          /\ UNCHANGED page
       \/ /\ ~ Valid(finds[t])
          /\ Show(t, IF pc[t] = "none" THEN "login" ELSE page[t])
          /\ UNCHANGED storeOf
    /\ UNCHANGED <<sessions, stored, mine, pc, who, fresh, history>>

-----------------------------------------------------------------------------
(***************************************************************************)
(* LogoutView                                                              *)
(***************************************************************************)
Logout(t) ==
    /\ pc[t] = "none" /\ page[t] \in {"home", "login"}
    /\ Show(t, "logout") /\ Goto(t, "logout")
    /\ late' = IF finds[t] # NoJwt THEN late \cup {t} ELSE late
    /\ UNCHANGED <<sessions, stored, mine, storeOf, finds, who, fresh, lost, switched>>

ExistStoreData(t) == storeOf[t] \cap Counted # {}

Strategy(t) == mine[t] # NoJwt /\ jwts[mine[t]].shibboleth

\* Mutant: the tab is loaded again only to end the session with the IdP.
ReloadForShibboleth(t) == Strategy(t)

MustReload(t) == Strategy(t) \/ ExistStoreData(t)

\* The JWT is dropped, in the browser only, also when the server answers 401;
\* the tab is loaded again for Shibboleth, or when the store is not empty.
LoggedOut(t) ==
    LET reload == MustReload(t)
    IN  /\ pc[t] = "logout"
        /\ mine' = [mine EXCEPT ![t] = NoJwt]
        /\ stored' = NoJwt
        /\ storeOf' = IF reload THEN [storeOf EXCEPT ![t] = {}] ELSE storeOf
        /\ finds' = IF reload THEN [finds EXCEPT ![t] = NoJwt] ELSE finds
        /\ late' = IF reload THEN late \ {t} ELSE late
        /\ switched' = switched \ {t}
        /\ Show(t, "out") /\ Goto(t, "none")
        /\ UNCHANGED <<sessions, who, fresh, lost>>

\* Any other error leaves the page as it is, and the tab logged in.
LogoutFails(t) ==
    /\ pc[t] = "logout"
    /\ Goto(t, "none")
    /\ UNCHANGED <<sessions, stored, mine, page, storeOf, finds, who, fresh, history>>

-----------------------------------------------------------------------------
Tick == /\ now < MaxNow
        /\ now' = now + 1
        /\ UNCHANGED <<jwts, redis, stored, tab, history>>

\* A restart of Redis may lose what it keeps.
Restart ==
    LET kept == {j \in Jwts : redis[j] # NoSession}
    IN  /\ kept # {}
        /\ redis' = [j \in Jwts |-> NoSession]
        /\ lost' = lost \cup kept
        /\ UNCHANGED <<now, jwts, stored, tab, late, switched>>

BrowserNext ==
    \/ \E t \in Tabs :
         \/ Visit(t) \/ Authenticate(t) \/ ReloadTab(t)
         \/ LoginForm(t) \/ LoginShibboleth(t) \/ CreateAccessToken(t)
         \/ SetRedis(t) \/ Find(t) \/ TabFindAnswered(t) \/ Logout(t)
         \/ LoggedOut(t) \/ LogoutFails(t)
    \/ Tick \/ Restart

BrowserSpec == BrowserInit /\ [][BrowserNext]_browserVars

-----------------------------------------------------------------------------
\* A tab whose JWT is valid is never without Vault: the entry for it holds the
\* token of its own user, unless Redis has lost it.
SessionHasToken ==
    \A t \in Tabs : Valid(mine[t]) /\ mine[t] \notin lost =>
        HasToken(mine[t]) /\ redis[mine[t]].user = User(t)

\* Of the kinds that the log-out counts (streams, public keys and access keys), the
\* store of a tab holds records of the user the tab shows only, unless the log-out
\* overtook a find, or after an error 401 another user has logged in without a
\* log-out.  Members, data keys, files and parameters of a stream are not covered.
NothingOfOthers ==
    \A t \in Tabs \ (late \cup switched) :
        mine[t] # NoJwt => storeOf[t] \cap Counted \subseteq Owned[User(t)]
=============================================================================
