\* Two requests at a time about two names; any call may fail.
SPECIFICATION Spec
CONSTANTS
    Handlers = {h1, h2}
    Names = {n1, n2}
    Uids = {i1, i2}
    Wraps = {w1}
    Passwords = {p1, p2}
    Faults = {"policy", "userpass", "commit", "unuserpass", "unpolicy", "check", "set", "insert", "role", "wrap", "store", "uncubby", "unwrap", "approle", "login"}
    NoUid = NoUid
    NoName = NoName
    NoWrap = NoWrap
    NoPassword = NoPassword
    NoRow = NoRow
    NoAccount = NoAccount
    NoEntry = NoEntry
SYMMETRY Symmetry
INVARIANTS LiveUsersCanLogIn RemovedForGood OwnData TokenIsGood TokenUsedOnce
CHECK_DEADLOCK FALSE
