SPECIFICATION Spec
CONSTANTS
    p1 = p1
    w1 = w1
    w2 = w2
    NoWatch = NoWatch
    Path <- OnePath
    Watch <- OneWatch
    PathOf <- OneToOne
    Allowed = {"delete", "remove", "loss"}
    MaxZxid = 3
    MaxOutstanding = 3
CHECK_DEADLOCK FALSE
INVARIANT TypeOK
INVARIANT OneCarrier
INVARIANT ArmedCovered
INVARIANT RemoveEndsChain
PROPERTY NoOldValue
