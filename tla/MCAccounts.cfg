\* Concurrent requests about two accounts.  The requests come to an end.
CONSTANTS
    a = a
    b = b
    c = c
    g1 = g1
    g2 = g2
    None = None
    Users <- MCUsers
    Groups <- MCGroups
    Managing <- MCManaging
    MaxMade = 4
    Starts <- MCStarts
    Requests <- MCRequests
SPECIFICATION Spec
CHECK_DEADLOCK FALSE
INVARIANTS
    AdminRemainsAlone
    OldSessionsClosed
    
