CONSTANTS
    s1 = s1
    s2 = s2
    k1 = k1
    k2 = k2
    k3 = k3
    Keys     = {k1, k2, k3}
    Sessions = {s1, s2}
    Menus    <- AllMenus
    MaxNow   = 3
SPECIFICATION Spec

INVARIANTS TypeOK ScanCovers RangesAgree PopsWhatItAnswers MemberConserved BitFieldExact RangeRoundTrip StreamReads 
PROPERTIES PendingUntilAcked StoreExact WaitersTold MsetnxAllOrNone
CHECK_DEADLOCK FALSE
