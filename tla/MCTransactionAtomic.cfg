CONSTANTS
    s1 = s1
    s2 = s2
    k1 = k1
    k2 = k2
    Sessions  = {s1, s2}
    Keys      = {k1, k2}
    NoSession = NoSession
    NoKey     = NoKey
    TtlKeys   = {}
    PlainCmds = {}
    QueueCmds = {"INCR", "DEL"}
    MaxWatch  = 0
    MaxQueue  = 2
    MaxSerial = 1
SPECIFICATION FairSpec
PROPERTIES AtomicTransactions LocksReleased
