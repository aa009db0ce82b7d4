SPECIFICATION FairSpec
CONSTANTS
    p1 = p1
    w1 = w1
    w2 = w2
    NoWatch = NoWatch
    Path <- OnePath
    Watch <- TwoWatches
    PathOf <- SamePath
    Allowed = {"delete"}
    MaxZxid = 4
    MaxOutstanding = 0
CHECK_DEADLOCK FALSE
INVARIANT ChainAlive
INVARIANT SettledView
PROPERTY Converges
PROPERTY ReportsForward
