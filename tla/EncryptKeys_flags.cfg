\* Three concurrent requests, two targets; a create may fail until its nested transaction has committed.
SPECIFICATION MetSpec
CONSTANTS
    Handlers = {h1, h2, h3}
    Targets = {t1, t2}
    KeyIds = {k1, k2, k3}
    CreateFlags <- CreateFlagsOf
    PatchFlags <- PatchFlagsOf
    OffTarget = t1
    Faults = {"insert", "disableOld", "patch", "commitPatch", "delete", "cleanup"}
    NoKey = NoKey
    NoRow = NoRow
    NoSecret = NoSecret
SYMMETRY Symmetry
INVARIANTS AtMostOneEnabled LatestStaysEnabled NoSecretAfterRemoval
PROPERTY OldRecordsFrozen
CHECK_DEADLOCK FALSE
