SPECIFICATION Spec
CONSTANTS
    NoId = NoId
    c1 = c1
    c2 = c2
    c3 = c3
    Names <- ListOrder
    Path <- DeepTree
    Call <- ThreeCalls
    Scenario <- AllScenarios
    BufSize = 1
    MaxOthers = 2
CHECK_DEADLOCK FALSE
INVARIANT PrefixesSuffice
INVARIANT OkIffStored
INVARIANT SomeDeleteGetsThrough
INVARIANT NoGarbage
INVARIANT SplitComplete
PROPERTY DeleteReportsTruth
