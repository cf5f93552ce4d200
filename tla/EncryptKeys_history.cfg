\* Two concurrent requests under fairness; any call may fail except a removal from Vault during DELETE /streams.
SPECIFICATION FairSpec
CONSTANTS
    Handlers = {h1, h2}
    Targets = {t1}
    KeyIds = {k1, k2}
    CreateFlags <- AnyFlags
    PatchFlags <- AnyFlags
    OffTarget = t1
    Faults = {"insert", "disableOld", "register", "commitCreate", "patch", "commitPatch", "delete"}
    NoKey = NoKey
    NoRow = NoRow
    NoSecret = NoSecret
INVARIANT KeyHasSecret
PROPERTIES KeepsHistory EveryRequestAnswered
CHECK_DEADLOCK FALSE
