\* Two requests at the same time, under fairness; any call may fail.
SPECIFICATION FairSpec
CONSTANTS
    Handlers = {h1, h2}
    Ids = {s1, s2}
    Names = {n1}
    Topics = {t1, t2}
    MaxRequests = 4
    Faults = {"insert", "commitCreate", "fetch", "deleteTopics", "insertTopics", "update", "commitPatch", "delete", "commitRemove"}
    NoRow = NoRow
    NoRequest = NoRequest
    NoGraph = NoGraph
INVARIANT TopicsMatch
PROPERTY EveryRequestAnswered
CHECK_DEADLOCK FALSE
