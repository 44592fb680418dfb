CONSTANTS
    c1 = c1
    c2 = c2
    c3 = c3
    c4 = c4
    k1 = k1
    k2 = k2
    k3 = k3
    b1 = b1
    b2 = b2
    b3 = b3
    None       = None
    Conns      = {c1, c2}
    Keys       = {k1, k2}
    Cmds       = {b1}
    Conn       <- OneConn
    KeysOf     <- OneKeys
    Timed      = {b1}
    Pushers    = {c2}
    Poppers    = {c2}
    Movers     = {}
    MoveTo     = {}
    StringKeys = {}
    Prefetch   = FALSE
    MaxLen     = 1
    MaxPush    = 1
SPECIFICATION FairSpec
PROPERTIES TimeoutAnswers
CHECK_DEADLOCK FALSE
