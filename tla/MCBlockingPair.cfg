CONSTANTS
    c1 = c1
    c2 = c2
    c3 = c3
    c4 = c4
    k1 = k1
    k2 = k2
    k3 = k3
    b1 = b1
    b2 = b2
    b3 = b3
    None       = None
    Conns      = {c1, c2}
    Keys       = {k1, k2}
    Cmds       = {b1, b2}
    Conn       <- PairConn
    KeysOf     <- PairKeys
    Timed      = {}
    Pushers    = {c2}
    Poppers    = {}
    Movers     = {}
    MoveTo     = {}
    StringKeys = {}
    Prefetch   = FALSE
    MaxLen     = 1
    MaxPush    = 2
SPECIFICATION Spec
INVARIANTS NoLostWakeup
CHECK_DEADLOCK FALSE
