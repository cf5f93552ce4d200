\* A key, two files and a parameter, with any targets and flags.
SPECIFICATION FileSpec
CONSTANTS
    Keys = {1}
    Files = {2, 3}
    Parameters = {4}
    Targets <- MCTargets
    Services <- MCServices
    Documents <- MCDocuments
    Queries <- MCQueries
    ApiQuery <- MCApiQuery
    Map = Map
    Scalar = Scalar
    Nil = Nil
    Bad = Bad
CONSTRAINT Bounds
INVARIANTS FileTypeOK LastWins EverythingEmbedded OthersKept NothingLost
CHECK_DEADLOCK FALSE
