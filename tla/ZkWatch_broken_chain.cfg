SPECIFICATION Spec
CONSTANTS
    p1 = p1
    w1 = w1
    w2 = w2
    NoWatch = NoWatch
    Path <- OnePath
    Watch <- OneWatch
    PathOf <- OneToOne
    Allowed = {"loss"}
    MaxZxid = 2
    MaxOutstanding = 0
CHECK_DEADLOCK FALSE
INVARIANT NextWatchSet
