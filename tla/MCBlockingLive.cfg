CONSTANTS
    c1 = c1
    c2 = c2
    c3 = c3
    c4 = c4
    k1 = k1
    k2 = k2
    k3 = k3
    b1 = b1
    b2 = b2
    b3 = b3
    None       = None
    Conns      = {c1, c2, c3, c4}
    Keys       = {k1, k2, k3}
    Cmds       = {b1, b2, b3}
    Conn       <- CrowdConn
    KeysOf     <- RivalKeys
    Timed      = {b3}
    Pushers    = {c4}
    Poppers    = {}
    Movers     = {}
    MoveTo     = {}
    StringKeys = {}
    Prefetch   = FALSE
    MaxLen     = 2
    MaxPush    = 3
SPECIFICATION FairSpec
PROPERTIES Served TimeoutAnswers
CHECK_DEADLOCK FALSE
