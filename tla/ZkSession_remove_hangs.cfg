SPECIFICATION FairSpec
CONSTANTS
    p1 = p1
    p2 = p2
    w1 = w1
    w2 = w2
    NoWatch = NoWatch
    Path <- OnePath
    Watch <- OneWatch
    PathOf <- OneToOne
    Allowed = {"remove"}
    MaxLosses = 1
    MaxEvents = 0
CHECK_DEADLOCK FALSE
PROPERTY RemoveReturns
