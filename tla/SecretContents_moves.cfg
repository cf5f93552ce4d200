\* Two concurrent requests about a file and a user parameter; any call may fail.
SPECIFICATION Spec
CONSTANTS
    Handlers = {h1, h2}
    AttachFiles = {f1}
    UserParameters = {p1}
    Texts = {t1}
    Binaries = {b1}
    Faults = {"read", "fetch", "write", "vault", "commit"}
    Null = Null
    Absent = Absent
    NoRow = NoRow
    NoId = NoId
SYMMETRY Symmetry
INVARIANTS ContentWhereFlagSays ContentKept
CHECK_DEADLOCK FALSE
