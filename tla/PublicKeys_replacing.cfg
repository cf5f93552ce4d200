\* Two concurrent requests that create keys or turn them on, under fairness; no failure.
SPECIFICATION FairSpec
CONSTANTS
    Handlers = {h1, h2}
    KeyIds = {k1, k2, k3}
    CreateFlags = {"plain", "default"}
    PatchFlags = {"default"}
    Removing = FALSE
    Faults = {}
INVARIANTS DefaultOrReplacing NoCyclicWait
PROPERTY EveryRequestAnswered
CHECK_DEADLOCK FALSE
