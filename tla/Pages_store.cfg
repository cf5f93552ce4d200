\* Each kind of record in turn, any other clients; any request or find may fail, and
\* any answer may be lost.
SPECIFICATION Spec
CONSTANTS
    Names = {me, n2}
    Me = me
    MaxIds = 3
    MaxChanges = 2
    MaxFinds = 1
    Calls = {c1, c2}
    NoRow = NoRow
    NoForm = NoForm
    NoCall = NoCall
CONSTRAINT Bounds
SYMMETRY Symmetry
INVARIANTS TypeOK StoreAgrees ConfigShown
PROPERTIES RefusedOnlyIfBehind NewIsNew
CHECK_DEADLOCK FALSE
