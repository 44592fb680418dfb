CONSTANTS
    s1 = s1
    k1 = k1
    Sessions  = {s1}
    Keys      = {k1}
    NoSession = NoSession
    NoKey     = NoKey
    TtlKeys   = {}
    PlainCmds = {"GET"}
    QueueCmds = {"GET", "INCR", "DEL"}
    MaxWatch  = 0
    MaxQueue  = 3
    MaxSerial = 1
SPECIFICATION FairSpec
PROPERTIES AtomicTransactions
