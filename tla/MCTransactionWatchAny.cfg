CONSTANTS
    s1 = s1
    s2 = s2
    k1 = k1
    Sessions  = {s1, s2}
    Keys      = {k1}
    NoSession = NoSession
    NoKey     = NoKey
    TtlKeys   = {}
    PlainCmds = {"INCR", "DEL"}
    QueueCmds = {"INCR"}
    MaxWatch  = 1
    MaxQueue  = 1
    MaxSerial = 2
SPECIFICATION Spec
INVARIANTS WatchAnyKey
