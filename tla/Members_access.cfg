\* Two concurrent requests of any kind; any call may fail.
SPECIFICATION Spec
CONSTANTS
    Handlers = {h1, h2}
    Users = {u1, u2}
    Streams = {s1, s2}
    MemberIds = {m1, m2, m3}
    Faults = {"write", "policy", "put", "commit"}
    NoId = NoId
    NoRow = NoRow
    NoUser = NoUser
SYMMETRY Symmetry
INVARIANTS PolicyMatches AdminRemains
PROPERTY OnlyAdministratorsChange
CHECK_DEADLOCK FALSE
