SPECIFICATION Spec
CONSTANTS
    a = a
    b = b
    Parent = Parent
    Child <- OneChild
    Allowed = {}
    MaxZxid = 4
    MaxExpiries = 0
CHECK_DEADLOCK FALSE
INVARIANT ChildrenUpToDate
