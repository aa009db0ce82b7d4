SPECIFICATION FairSpec
CONSTANTS
    p1 = p1
    p2 = p2
    w1 = w1
    w2 = w2
    NoWatch = NoWatch
    Path <- OnePath
    Watch <- OneWatch
    PathOf <- OneToOne
    Allowed = {"remove", "async_remove", "destroy", "auth"}
    MaxLosses = 2
    MaxEvents = 1
CHECK_DEADLOCK FALSE
INVARIANT TypeOK
INVARIANT NoCallbackWhileReset
INVARIANT LiveDataKept
INVARIANT CallsBacked
INVARIANT NoDoubleWatch
INVARIANT FaultsInChange
PROPERTY Recovers
PROPERTY Survives
PROPERTY DestructorReturns
