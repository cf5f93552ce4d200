\* Two requests and the job side by side; any call may fail.
SPECIFICATION Spec
CONSTANTS
    Handlers = {h1, h2}
    Job = Job
    u1 = u1
    u2 = u2
    s1 = s1
    Users <- MCUsers
    Streams <- MCStreams
    Member <- MCMember
    KeyIds = {k1, k2}
    Faults = {"policy", "role", "secret", "info", "commit", "delete", "uninfo", "unrole", "unpolicy", "ask", "login"}
    NoKey = NoKey
    NoRow = NoRow
SYMMETRY Symmetry
INVARIANTS RowUsable NothingLeft ReadsOnlyWithRow FindsComplete
CHECK_DEADLOCK FALSE
