SPECIFICATION Spec
CONSTANTS
    f1 = f1
    c1 = c1
    c2 = c2
    c3 = c3
    Dir = Dir
    NoCall = NoCall
    NoObs = NoObs
    File <- OneFile
    Call <- TwoCalls
    KeyOf <- SameValue
    SameTick = TRUE
    UserTasks = {"create", "set", "delete", "remove"}
    MaxWrites = 3
    MaxTasks = 1
CHECK_DEADLOCK FALSE
INVARIANT NoEmptyCall
INVARIANT MonitorBacked
PROPERTY ValuesInOrder
