CONSTANTS
    s1 = s1
    s2 = s2
    k1 = k1
    k2 = k2
    Sessions  = {s1, s2}
    Keys      = {k1, k2}
    NoSession = NoSession
    NoKey     = NoKey
    TtlKeys   = {k1, k2}
    PlainCmds = {"GET", "INCR", "DEL"}
    QueueCmds = {"INCR", "BADARG"}
    MaxWatch  = 1
    MaxQueue  = 1
    MaxSerial = 2
SPECIFICATION Spec
SYMMETRY SessionsAndKeys
INVARIANTS TypeOK LocksAccounted WatchSound
PROPERTIES Isolation
