SPECIFICATION FairSpec
CONSTANTS
    a = a
    b = b
    Parent = Parent
    Child <- TwoChildren
    Allowed = {"remove", "delete_parent"}
    MaxZxid = 4
    MaxExpiries = 1
CHECK_DEADLOCK FALSE
INVARIANT TypeOK
INVARIANT WatchersBacked
INVARIANT ListerPerCreation
INVARIANT OneGetChain
INVARIANT ListedMonitored
INVARIANT SteadyUpToDate
INVARIANT DeletionsTrue
PROPERTY ReportsForward
PROPERTY ChildrenConverge
PROPERTY RemovalEnds
