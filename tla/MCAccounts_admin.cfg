\* Two administrators who take each other away.
CONSTANTS
    a = a
    b = b
    c = c
    g1 = g1
    g2 = g2
    None = None
    Users <- MCUsers
    Groups <- MCGroups
    Managing <- MCManaging
    MaxMade = 4
    Starts <- MCStarts
    Requests <- TwoRequests
SPECIFICATION Spec
CHECK_DEADLOCK FALSE
INVARIANT AdminRemains
