SPECIFICATION FairSpec
CONSTANTS
    f1 = f1
    c1 = c1
    c2 = c2
    c3 = c3
    Dir = Dir
    NoCall = NoCall
    NoObs = NoObs
    File <- OneFile
    Call <- OneCall
    KeyOf <- OneValue
    SameTick = FALSE
    UserTasks = {}
    MaxWrites = 3
    MaxTasks = 0
CHECK_DEADLOCK FALSE
PROPERTY ValueSettles
