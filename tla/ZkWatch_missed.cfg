SPECIFICATION Spec
CONSTANTS
    p1 = p1
    w1 = w1
    w2 = w2
    NoWatch = NoWatch
    Path <- OnePath
    Watch <- OneWatch
    PathOf <- OneToOne
    Allowed = {"delete"}
    MaxZxid = 3
    MaxOutstanding = 0
CHECK_DEADLOCK FALSE
INVARIANT UserUpToDate
