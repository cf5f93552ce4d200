\* Two tabs, two users, two log-ins; Redis may be restarted at any time.
SPECIFICATION BrowserSpec
CONSTANTS
    Tabs = {t1, t2}
    u1 = u1
    u2 = u2
    s1 = s1
    s2 = s2
    Users <- MCUsers
    Owned <- MCOwned
    Counted <- MCCounted
    Jwts = {j1, j2}
    JwtTtl = 2
    MaxNow = 2
    NoJwt = NoJwt
    NoSession = NoSession
    NoUser = NoUser
SYMMETRY Symmetry
INVARIANTS SessionHasToken NothingOfOthers
CHECK_DEADLOCK FALSE
