CONSTANTS
    c1 = c1
    c2 = c2
    c3 = c3
    c4 = c4
    k1 = k1
    k2 = k2
    k3 = k3
    b1 = b1
    b2 = b2
    b3 = b3
    None       = None
    Conns      = {c1, c2, c3, c4}
    Keys       = {k1, k2, k3}
    Cmds       = {b1, b2, b3}
    Conn       <- CrowdConn
    KeysOf     <- CrowdKeys
    Timed      = {b1, b2}
    Pushers    = {c4}
    Poppers    = {c4}
    Movers     = {c4}
    MoveTo     = {k3}
    StringKeys = {k2}
    Prefetch   = FALSE
    MaxLen     = 2
    MaxPush    = 3
SPECIFICATION Spec
INVARIANTS TypeOK NoDangling NoLostWakeup OneReply NoLeak
CHECK_DEADLOCK FALSE
