CONSTANTS
    s1 = s1
    s2 = s2
    k1 = k1
    Sessions  = {s1, s2}
    Keys      = {k1}
    NoSession = NoSession
    NoKey     = NoKey
    TtlKeys   = {}
    PlainCmds = {"INCR"}
    QueueCmds = {"INCR", "BADARG"}
    MaxWatch  = 0
    MaxQueue  = 2
    MaxSerial = 1
SPECIFICATION Spec
INVARIANTS QueueErrorAborts
